---- MODULE Spec2Model ----
(***************************************************************************)
(* A model of the JSON library of src/source/json.h and json.cpp:          *)
(*   - Value: a handle (type tag + shared pointer to an implementation     *)
(*     cell) over a heap of cells;                                         *)
(*   - Formatter: the recursive printer;                                   *)
(*   - Parser: the rule table, the combinators and the semantic actions,   *)
(*     run one combinator step at a time over a character stream.          *)
(* Characters are one-character strings, texts are sequences of them.      *)
(***************************************************************************)
EXTENDS Integers, Sequences, FiniteSets, TLC

(***************************************************************************)
(* Bounds of the model.                                                    *)
(***************************************************************************)
\* calls the caller makes in a behaviour of the Value specification
MaxCalls == 3
\* longest Array literal handed to a constructor
MaxLen == 1
\* width in bits of size_t in the model (SIZE_MAX = 2^SizeBits - 1)
SizeBits == 3

(***************************************************************************)
(* Numbers.  A double is modelled by its decimal value m * 10^e with the   *)
(* sign kept apart, normalised so that equal decimals have one record;     *)
(* the sign of zero is kept (stod("-0") is -0.0) and ignored by ==.        *)
(***************************************************************************)
RECURSIVE Pow10(_)
Pow10(k) == IF k <= 0 THEN 1 ELSE 10 * Pow10(k - 1)

RECURSIVE Normalise(_, _)
Normalise(m, e) ==
  IF m = 0 THEN [m |-> 0, e |-> 0]
  ELSE IF m % 10 = 0 THEN Normalise(m \div 10, e + 1)
  ELSE [m |-> m, e |-> e]

Num(neg, m, e) ==
  LET n == Normalise(m, e) IN [neg |-> neg, m |-> n.m, e |-> n.e]

Zero == Num(FALSE, 0, 0)
One == Num(FALSE, 1, 0)

\* operator== of double on the modelled values: -0.0 == 0.0
NumEq(a, b) == (a.m = 0 /\ b.m = 0) \/ a = b

(***************************************************************************)
(* Types, cells and Values.                                                *)
(***************************************************************************)
Type == {"null", "boolean", "number", "string", "array", "object"}

\* SIZE_MAX, and the largest length std::vector<Value> accepts (max_size():
\* PTRDIFF_MAX elements of unit size in the model's width)
SIZE_MAX == 2 ^ SizeBits - 1
ArrayMaxSize == 2 ^ (SizeBits - 1) - 1

\* The address of the one ValueImplBase cell.  A base cell holds no data and
\* no operation observes which base cell a null Value owns, so every null
\* Value refers to this one.
BaseAddr == 1

NullValue == [type |-> "null", impl |-> BaseAddr]

EmptyObject == [k \in {} |-> NullValue]

\* struct ValueImplBase / ValueImpl<T>: kind is T, the other fields carry
\* the value of that T (and defaults elsewhere)
Cell(kind, b, n, s, arr, obj) ==
  [kind |-> kind, b |-> b, n |-> n, s |-> s, arr |-> arr, obj |-> obj]

BaseCell == Cell("base", FALSE, Zero, <<>>, <<>>, EmptyObject)
\* the place of a cell that was destroyed
FreeCell == Cell("free", FALSE, Zero, <<>>, <<>>, EmptyObject)
BoolCell(b) == Cell("bool", b, Zero, <<>>, <<>>, EmptyObject)
DoubleCell(n) == Cell("double", FALSE, n, <<>>, <<>>, EmptyObject)
StringCell(s) == Cell("string", FALSE, Zero, s, <<>>, EmptyObject)
ArrayCell(arr) == Cell("Array", FALSE, Zero, <<>>, arr, EmptyObject)
ObjectCell(obj) == Cell("Object", FALSE, Zero, <<>>, <<>>, obj)

\* makeImpl / std::make_shared: the heap with a new cell, and its address
\* (the lowest free one)
MakeImpl(H, cell) ==
  LET free == {a \in DOMAIN H : H[a].kind = "free"} IN
  IF free = {} THEN [h |-> Append(H, cell), impl |-> Len(H) + 1]
  ELSE LET a == CHOOSE a \in free : \A c \in free : a <= c
       IN [h |-> [H EXCEPT ![a] = cell], impl |-> a]

\* the cells the Values of a container refer to
Refs(H, a) ==
  {H[a].arr[k].impl : k \in DOMAIN H[a].arr}
    \cup {H[a].obj[k].impl : k \in DOMAIN H[a].obj}

\* the cells that can be reached from the cells S
RECURSIVE Reach(_, _)
Reach(H, S) ==
  LET T == S \cup UNION {Refs(H, a) : a \in S} IN
  IF T = S THEN S ELSE Reach(H, T)

\* ~Value / the shared_ptr's release: a cell that no Value refers to any
\* more is destroyed.  roots are the Values that still exist.
Release(H, roots) ==
  LET live == Reach(H, {BaseAddr} \cup {v.impl : v \in roots})
      top == CHOOSE a \in live : \A c \in live : c <= a
  IN [a \in 1 .. top |-> IF a \in live THEN H[a] ELSE FreeCell]

\* Value::State(type, impl)
State(type, impl) == [type |-> type, impl |-> impl]

(***************************************************************************)
(* Value: constructors, copy and assignment, over an explicit heap H.      *)
(* Each returns the heap it leaves and the Value it yields.                *)
(***************************************************************************)
\* Value(std::nullptr_t)
ValueNull(H) == [h |-> H, v |-> NullValue]

\* Value(bool), Value(double), Value(std::string), Value(Array), Value(Object)
ValueOf(H, type, cell) ==
  LET a == MakeImpl(H, cell) IN [h |-> a.h, v |-> State(type, a.impl)]

\* (mutant) a copy constructor that clones the cell instead of sharing it
CopyCtorCloning(H, that) ==
  LET a == MakeImpl(H, H[that.impl]) IN [h |-> a.h, v |-> State(that.type, a.impl)]

\* Value(const Value& that): a new State copied from that's, so the type and
\* the shared_ptr are copied and the cell is shared, for every type
CopyCtor(H, that) == [h |-> H, v |-> State(that.type, that.impl)]

\* (mutant) an assignment that writes the new payload into the cell the
\* target already refers to
MoveAssignInPlace(H, old, new) ==
  [h |-> [H EXCEPT ![old.impl] = H[new.impl]], v |-> State(new.type, old.impl)]

\* Value& operator=(Value&&) = default: the State pointer of the target is
\* replaced by the source's
MoveAssign(H, old, new) == [h |-> H, v |-> new]

\* Value& operator=(const Value& that) { return *this = Value(that); }
CopyAssign(H, old, that) ==
  LET c == CopyCtor(H, that) IN MoveAssign(c.h, old, c.v)

\* copy-construction of each element of a sequence of Values, in order
RECURSIVE CopyAll(_, _)
CopyAll(H, vs) ==
  IF vs = <<>> THEN [h |-> H, vs |-> <<>>]
  ELSE LET c == CopyCtor(H, Head(vs))
           r == CopyAll(c.h, Tail(vs))
       IN [h |-> r.h, vs |-> <<c.v>> \o r.vs]

(***************************************************************************)
(* Value: queries and accessors.  An accessor yields exc ("none" or the    *)
(* exception thrown) and ret, a record of one shape for every accessor.    *)
(***************************************************************************)
NoRet ==
  [b |-> FALSE, n |-> Zero, s |-> <<>>, ref |-> 0, idx |-> 0, key |-> <<>>]

Ok(ret) == [exc |-> "none", ret |-> ret]
Throw(exc) == [exc |-> exc, ret |-> NoRet]

\* Value::type
TypeOf(v) == v.type

\* Value::isValid / operator bool
IsValid(v) == TypeOf(v) # "null"

\* Value::isReference
IsReference(v) == TypeOf(v) = "array" \/ TypeOf(v) = "object"

\* (mutant) a cast that is not checked
ImplAsUnchecked(H, kind, impl) == TRUE

\* implAs<T>: the dynamic_cast of the cell to ValueImpl<T> succeeds
ImplAs(H, kind, impl) == H[impl].kind = kind

\* (mutant) containers compared by their contents, element by element
ImplEqualsByContent(H, p, q) ==
  LET c == H[p]  d == H[q] IN
  /\ c.kind # "base"
  /\ c.kind = d.kind
  /\ c.b = d.b /\ NumEq(c.n, d.n) /\ c.s = d.s
  /\ c.arr = d.arr /\ c.obj = d.obj

\* ValueImplBase::equals (false) and ValueImpl<T>::equals (the cast succeeds
\* and the two values are ==; for Array and Object the value is the
\* unique_ptr owning the container, equal only to itself)
ImplEquals(H, p, q) ==
  LET c == H[p]  d == H[q] IN
  /\ c.kind # "base"
  /\ ImplAs(H, c.kind, q)
  /\ CASE c.kind = "bool" -> c.b = d.b
       [] c.kind = "double" -> NumEq(c.n, d.n)
       [] c.kind = "string" -> c.s = d.s
       [] OTHER -> p = q

\* (mutant) equals without the clause for two nulls
EqualsImplOnly(H, this, that) ==
  TypeOf(this) = TypeOf(that) /\ ImplEquals(H, this.impl, that.impl)

\* Value::equals, operator==
Equals(H, this, that) ==
  \/ (TypeOf(this) = "null" /\ TypeOf(that) = "null")
  \/ (TypeOf(this) = TypeOf(that) /\ ImplEquals(H, this.impl, that.impl))

\* Value::asBoolean, asNumber, asString, asArray, asObject (asArray and
\* asObject return a reference to the container of the cell: ref)
AsBoolean(H, v) ==
  IF ImplAs(H, "bool", v.impl)
  THEN Ok([NoRet EXCEPT !.b = H[v.impl].b]) ELSE Throw("TypeError")
AsNumber(H, v) ==
  IF ImplAs(H, "double", v.impl)
  THEN Ok([NoRet EXCEPT !.n = H[v.impl].n]) ELSE Throw("TypeError")
AsString(H, v) ==
  IF ImplAs(H, "string", v.impl)
  THEN Ok([NoRet EXCEPT !.s = H[v.impl].s]) ELSE Throw("TypeError")
AsArray(H, v) ==
  IF ImplAs(H, "Array", v.impl)
  THEN Ok([NoRet EXCEPT !.ref = v.impl]) ELSE Throw("TypeError")
AsObject(H, v) ==
  IF ImplAs(H, "Object", v.impl)
  THEN Ok([NoRet EXCEPT !.ref = v.impl]) ELSE Throw("TypeError")

Accessors == {"asBoolean", "asNumber", "asString", "asArray", "asObject"}

Access(acc, H, v) ==
  CASE acc = "asBoolean" -> AsBoolean(H, v)
    [] acc = "asNumber" -> AsNumber(H, v)
    [] acc = "asString" -> AsString(H, v)
    [] acc = "asArray" -> AsArray(H, v)
    [] OTHER -> AsObject(H, v)

\* the type each accessor is documented to require
AccessorType(acc) ==
  CASE acc = "asBoolean" -> "boolean"
    [] acc = "asNumber" -> "number"
    [] acc = "asString" -> "string"
    [] acc = "asArray" -> "array"
    [] OTHER -> "object"

\* Value::arrayLength
ArrayLength(H, v) ==
  IF TypeOf(v) = "array" THEN Len(H[v.impl].arr) ELSE 0

\* (mutant) a resize one slot short
ResizeShort(arr, n) == arr \o [k \in 1 .. (n - 1 - Len(arr)) |-> NullValue]

\* Array::resize(n) growing the array: the new slots are Value()
Resize(arr, n) == arr \o [k \in 1 .. (n - Len(arr)) |-> NullValue]

\* Value::element(index): the heap it leaves, exc, and the slot returned
\* (container ref, index idx).  resize throws std::length_error beyond
\* max_size, before it changes the array.
Element(H, v, index) ==
  IF index >= SIZE_MAX THEN [h |-> H] @@ Throw("out_of_range")
  ELSE IF AsArray(H, v).exc # "none" THEN [h |-> H] @@ AsArray(H, v)
  ELSE LET ref == AsArray(H, v).ret.ref
           arr == H[ref].arr
       IN IF index >= Len(arr) /\ index + 1 > ArrayMaxSize
          THEN [h |-> H] @@ Throw("length_error")
          ELSE [h |-> IF index >= Len(arr)
                      THEN [H EXCEPT ![ref].arr = Resize(arr, index + 1)]
                      ELSE H]
               @@ Ok([NoRet EXCEPT !.ref = ref, !.idx = index])

\* Value::hasProperty (noexcept: a throwing asObject would end the program)
HasProperty(H, v, name) ==
  IF TypeOf(v) # "object" THEN [exc |-> "none", has |-> FALSE]
  ELSE IF AsObject(H, v).exc # "none" THEN [exc |-> "terminate", has |-> FALSE]
  ELSE [exc |-> "none", has |-> name \in DOMAIN H[v.impl].obj]

\* (mutant) a lookup that does not insert
PropertyLookup(H, v, name) ==
  IF AsObject(H, v).exc # "none" THEN [h |-> H] @@ AsObject(H, v)
  ELSE [h |-> H]
       @@ Ok([NoRet EXCEPT !.ref = AsObject(H, v).ret.ref, !.key = name])

\* Value::property(name): asObject()[name], which inserts Value() for a
\* name the map lacks
Property(H, v, name) ==
  IF AsObject(H, v).exc # "none" THEN [h |-> H] @@ AsObject(H, v)
  ELSE LET ref == AsObject(H, v).ret.ref
           obj == H[ref].obj
       IN [h |-> IF name \in DOMAIN obj THEN H
                 ELSE [H EXCEPT ![ref].obj = obj @@ (name :> NullValue)]]
          @@ Ok([NoRet EXCEPT !.ref = ref, !.key = name])

(***************************************************************************)
(* Characters and texts.  A character is a one-character string (the       *)
(* backspace and the backquote, which a string cannot hold, and the        *)
(* end-of-file value of peek have names); a text is a sequence of          *)
(* characters.                                                             *)
(***************************************************************************)
\* '`'
Backquote == "BQ"
\* the characters 0x20 .. 0x7e, in order
Printable ==
  <<" ", "!", "\"", "#", "$", "%", "&", "'", "(", ")", "*", "+", ",", "-",
    ".", "/", "0", "1", "2", "3", "4", "5", "6", "7", "8", "9", ":", ";",
    "<", "=", ">", "?", "@", "A", "B", "C", "D", "E", "F", "G", "H", "I",
    "J", "K", "L", "M", "N", "O", "P", "Q", "R", "S", "T", "U", "V", "W",
    "X", "Y", "Z", "[", "\\", "]", "^", "_", Backquote,
    "a", "b", "c", "d", "e",
    "f", "g", "h", "i", "j", "k", "l", "m", "n", "o", "p", "q", "r", "s",
    "t", "u", "v", "w", "x", "y", "z", "{", "|", "}", "~">>

\* Traits::eof(), what peek returns when there is no character
EOF == "EOF"
\* '\b'
Backspace == "BS"

\* the int a character is when the code compares it
Code(c) ==
  CASE c = EOF -> -1
    [] c = Backspace -> 8
    [] c = "\t" -> 9
    [] c = "\n" -> 10
    [] c = "\f" -> 12
    [] c = "\r" -> 13
    [] OTHER -> 31 + CHOOSE i \in DOMAIN Printable : Printable[i] = c

\* the digit character of d, 0 <= d <= 9
DigitChar(d) == Printable[Code("0") - 31 + d]

\* the decimal digits of the natural number m
RECURSIVE Digits(_)
Digits(m) ==
  IF m < 10 THEN <<DigitChar(m)>> ELSE Digits(m \div 10) \o <<DigitChar(m % 10)>>

\* k times the character c
Repeat(c, k) == [i \in 1 .. k |-> c]

\* std::string's operator<, the order of the keys of an Object
RECURSIVE StringLess(_, _)
StringLess(a, b) ==
  IF b = <<>> THEN FALSE
  ELSE IF a = <<>> THEN TRUE
  ELSE IF Head(a) = Head(b) THEN StringLess(Tail(a), Tail(b))
  ELSE Code(Head(a)) < Code(Head(b))

\* the keys in the opposite order
RECURSIVE SortedKeysDescending(_)
SortedKeysDescending(K) ==
  IF K = {} THEN <<>>
  ELSE LET k == CHOOSE k \in K : \A j \in K \ {k} : StringLess(j, k)
       IN <<k>> \o SortedKeysDescending(K \ {k})

\* the keys of an Object in the order std::map iterates them
RECURSIVE SortedKeys(_)
SortedKeys(K) ==
  IF K = {} THEN <<>>
  ELSE LET k == CHOOSE k \in K : \A j \in K \ {k} : StringLess(k, j)
       IN <<k>> \o SortedKeys(K \ {k})

(***************************************************************************)
(* Formatter, with the flags of operator<< (Formatter(): none set, so no   *)
(* newline and no indentation is printed).                                 *)
(***************************************************************************)
\* precision of an ostream, which operator<<(double) prints with
Precision == 6

\* m * 10^e rounded to Precision significant digits
RoundSig(m, e) ==
  LET k == Len(Digits(m)) - Precision IN
  IF k <= 0 THEN Normalise(m, e)
  ELSE Normalise((m + 5 * Pow10(k - 1)) \div Pow10(k), e + k)

\* out << double: %g with Precision significant digits
FormatDouble(n) ==
  LET r == RoundSig(n.m, n.e)
      ds == Digits(r.m)
      X == Len(ds) - 1 + r.e
      sign == IF n.neg THEN <<"-">> ELSE <<>>
      absX == IF X < 0 THEN 0 - X ELSE X
      xs == IF absX < 10 THEN <<"0">> \o Digits(absX) ELSE Digits(absX)
  IN sign \o
     (IF n.m = 0 THEN <<"0">>
      ELSE IF X < -4 \/ X >= Precision
      THEN <<Head(ds)>> \o (IF Len(ds) > 1 THEN <<".">> \o Tail(ds) ELSE <<>>)
           \o <<"e", IF X < 0 THEN "-" ELSE "+">> \o xs
      ELSE IF r.e >= 0 THEN ds \o Repeat("0", r.e)
      ELSE IF X >= 0
      THEN SubSeq(ds, 1, X + 1) \o <<".">> \o SubSeq(ds, X + 2, Len(ds))
      ELSE <<"0", ".">> \o Repeat("0", absX - 1) \o ds)

\* out << std::quoted(s): the delimiter and the escape character are
\* escaped, every other character is printed as it is
RECURSIVE Quote(_)
Quote(s) ==
  IF s = <<>> THEN <<>>
  ELSE (IF Head(s) = "\"" \/ Head(s) = "\\" THEN <<"\\", Head(s)>>
        ELSE <<Head(s)>>) \o Quote(Tail(s))
Quoted(s) == <<"\"">> \o Quote(s) \o <<"\"">>

\* Formatter::print(out, value), print(out, array), print(out, object):
\* the text written to out
RECURSIVE FormatValue(_, _)
RECURSIVE FormatArray(_, _, _)
RECURSIVE FormatObject(_, _, _)
FormatValue(H, v) ==
  CASE TypeOf(v) = "boolean" ->
         IF AsBoolean(H, v).ret.b THEN <<"t", "r", "u", "e">>
         ELSE <<"f", "a", "l", "s", "e">>
    [] TypeOf(v) = "number" -> FormatDouble(AsNumber(H, v).ret.n)
    [] TypeOf(v) = "string" -> Quoted(AsString(H, v).ret.s)
    [] TypeOf(v) = "array" ->
         <<"[">> \o FormatArray(H, H[AsArray(H, v).ret.ref].arr, 1) \o <<"]">>
    [] TypeOf(v) = "object" ->
         LET object == H[AsObject(H, v).ret.ref].obj IN
         <<"{">> \o FormatObject(H, object, SortedKeys(DOMAIN object)) \o <<"}">>
    [] OTHER -> <<"n", "u", "l", "l">>
\* the elements from index i on
FormatArray(H, array, i) ==
  IF i > Len(array) THEN <<>>
  ELSE (IF i # 1 THEN <<",", " ">> ELSE <<>>)
       \o FormatValue(H, array[i]) \o FormatArray(H, array, i + 1)
\* the entries of the keys ks, the first of which is the first of object
FormatObject(H, object, ks) ==
  IF ks = <<>> THEN <<>>
  ELSE (IF Head(ks) # Head(SortedKeys(DOMAIN object)) THEN <<",", " ">> ELSE <<>>)
       \o Quoted(Head(ks)) \o <<":", " ">>
       \o FormatValue(H, object[Head(ks)]) \o FormatObject(H, object, Tail(ks))

(***************************************************************************)
(* The input stream: a std::istream over a text.  The text is decided as   *)
(* it is read: text is the part decided so far, and while open is true a   *)
(* peek past it decides the next character (one of alphabet) or the end of *)
(* the text.                                                               *)
(***************************************************************************)
\* longest text that is decided character by character
MaxInput == 6

Istream(text, open, alphabet) ==
  [text |-> text, open |-> open, alphabet |-> alphabet, pos |-> 0,
   eofbit |-> FALSE, failbit |-> FALSE]

\* in.good(), and the stream as a condition (!in.fail())
Good(S) == ~S.eofbit /\ ~S.failbit
NotFail(S) == ~S.failbit

\* in.peek(): the outcomes it can have, each the character returned (c) and
\* the stream it leaves (in).  On a stream that is not good the sentry sets
\* failbit; at the end of the text peek sets eofbit.
Peek(S) ==
  IF ~Good(S) THEN {[c |-> EOF, in |-> [S EXCEPT !.failbit = TRUE]]}
  ELSE IF S.pos < Len(S.text) THEN {[c |-> S.text[S.pos + 1], in |-> S]}
  ELSE {[c |-> EOF, in |-> [S EXCEPT !.eofbit = TRUE, !.open = FALSE]]}
         \cup (IF S.open /\ Len(S.text) < MaxInput
               THEN {[c |-> c, in |-> [S EXCEPT !.text = Append(@, c)]] :
                       c \in S.alphabet}
               ELSE {})

(***************************************************************************)
(* Parser.                                                                 *)
(***************************************************************************)
\* the character classes
letter(c) ==
  \/ (Code(c) >= Code("A") /\ Code(c) <= Code("Z"))
  \/ (Code(c) >= Code("a") /\ Code(c) <= Code("z"))
digit(c) == Code(c) >= Code("0") /\ Code(c) <= Code("9")
n0digit(c) == Code(c) >= Code("1") /\ Code(c) <= Code("9")
xdigit(c) ==
  \/ (Code(c) >= Code("0") /\ Code(c) <= Code("9"))
  \/ (Code(c) >= Code("A") /\ Code(c) <= Code("F"))
  \/ (Code(c) >= Code("a") /\ Code(c) <= Code("f"))
space(c) == c = " " \/ c = "\n" \/ c = "\r" \/ c = "\t"
strchar(c) == Code(c) >= 32 /\ Code(c) < 127 /\ c # "\"" /\ c # "\\"

\* a CharClass applied to a character
CharClass(filter, c) ==
  CASE filter = "letter" -> letter(c)
    [] filter = "digit" -> digit(c)
    [] filter = "n0digit" -> n0digit(c)
    [] filter = "xdigit" -> xdigit(c)
    [] filter = "space" -> space(c)
    [] OTHER -> strchar(c)

\* bnf_generators: a Rule is the tree of the generators that built it (the
\* two terminal generators are terminal and terminalClass; memFn is a
\* member function of Parser used as a Rule)
terminal(what) == [op |-> "terminal", what |-> what]
terminalClass(filter) == [op |-> "terminalClass", filter |-> filter]
nonterminal(id) == [op |-> "nonterminal", id |-> id]
require(rule) == [op |-> "require", rule |-> rule]
optional(rule) == [op |-> "optional", rule |-> rule]
multiple(rule) == [op |-> "multiple", rule |-> rule]
both(first, second) == [op |-> "both", first |-> first, second |-> second]
either(first, second) == [op |-> "either", first |-> first, second |-> second]
memFn(fn) == [op |-> "memFn", fn |-> fn]

\* bnf_symbols: first & second
bothRequired(first, second) == both(first, require(second))

\* Parser::initialRules
initialRules ==
  LET t(what) == terminal(what)
      nt(id) == nonterminal(id)
      and(a, b) == bothRequired(a, b)
      or(a, b) == either(a, b)
      plus(a, b) == both(a, b)
      opt(a) == optional(a)
      mul(a) == multiple(a)
  IN
  [object |->
     and(and(t("{"), or(nt("property_list"), nt("whitespace"))), t("}")),
   property_list |->
     plus(plus(plus(memFn("pushObject"),
                    and(nt("property"), mul(and(t(","), nt("property"))))),
               memFn("compileCompound")),
          memFn("finishCompound")),
   property |->
     plus(and(and(nt("name"), t(":")), nt("value")), memFn("compileProperty")),
   name |->
     plus(plus(plus(nt("whitespace"), nt("string")), nt("whitespace")),
          memFn("compileName")),
   array |->
     and(and(t("["), or(nt("array_element_list"), nt("whitespace"))), t("]")),
   array_element_list |->
     plus(plus(plus(memFn("pushArray"),
                    and(nt("array_element"),
                        mul(and(t(","), nt("array_element"))))),
               memFn("compileCompound")),
          memFn("finishCompound")),
   array_element |->
     plus(nt("value"), memFn("compileArrayElement")),
   value |->
     plus(plus(nt("whitespace"),
               or(or(or(or(nt("object"), nt("array")), nt("string")),
                     nt("number")),
                  nt("symbol"))),
          nt("whitespace")),
   symbol |->
     plus(plus(memFn("beginToken"),
               and(nt("symbol_char"), mul(nt("symbol_char")))),
          memFn("compileSymbol")),
   string |->
     plus(plus(memFn("beginToken"),
               and(and(t("\""), mul(nt("string_content"))), t("\""))),
          memFn("compileString")),
   string_content |->
     or(nt("escape"), nt("string_char")),
   escape |->
     and(t("\\"), nt("escape_sequence")),
   escape_sequence |->
     or(or(or(or(or(or(or(or(t("\""), t("\\")), t("/")), t("b")), t("f")),
                 t("n")), t("r")), t("t")),
        and(and(and(and(t("u"), nt("xdigit")), nt("xdigit")), nt("xdigit")),
            nt("xdigit"))),
   number |->
     plus(plus(memFn("beginToken"),
               and(and(or(and(t("-"), nt("digit_sequence")),
                          nt("digit_sequence")),
                       opt(nt("fraction"))),
                   opt(nt("exponent")))),
          memFn("compileNumber")),
   digit_sequence |->
     or(t("0"), nt("nonzero_sequence")),
   nonzero_sequence |->
     and(nt("nonzero_digit"), mul(nt("digit"))),
   fraction |->
     and(and(t("."), nt("digit")), mul(nt("digit"))),
   exponent |->
     and(and(and(or(t("E"), t("e")), opt(or(t("+"), t("-")))), nt("digit")),
         mul(nt("digit"))),
   whitespace |->
     mul(nt("whitespace_char")),
   symbol_char |-> terminalClass("letter"),
   digit |-> terminalClass("digit"),
   nonzero_digit |-> terminalClass("n0digit"),
   xdigit |-> terminalClass("xdigit"),
   whitespace_char |-> terminalClass("space"),
   string_char |-> terminalClass("strchar")]

\* Parser::State as a fresh Parser holds it (the rules are initialRules;
\* logging, off, is left out)
ParserState ==
  [buffer |-> <<>>, lines |-> 0, result |-> NullValue,
   nameStack |-> <<>>, valueStack |-> <<>>]

\* Parser::getc: the parser and the stream after in.get()
Getc(P, S) ==
  IF Good(S) /\ S.pos < Len(S.text)
  THEN LET c == S.text[S.pos + 1] IN
       [parser |-> [P EXCEPT !.buffer = Append(@, c),
                             !.lines = IF c = "\n" \/ c = "\r" THEN @ + 1 ELSE @],
        in |-> [S EXCEPT !.pos = @ + 1]]
  ELSE [parser |-> P,
        in |-> [S EXCEPT !.failbit = TRUE, !.eofbit = @ \/ Good(S)]]

\* the loop of compileString over source (the token without its quotes),
\* from index i: what it throws (exc) and the string it builds (s).
\* source[length] is the '\0' that ends a std::string.
RECURSIVE CompileStringLoop(_, _)
CompileStringLoop(source, i) ==
  IF i >= Len(source) THEN [exc |-> "none", s |-> <<>>]
  ELSE LET c == source[i + 1]
           next == IF i + 1 < Len(source) THEN source[i + 2] ELSE "NUL"
           plain(d, j) ==
             LET r == CompileStringLoop(source, j) IN
             [exc |-> r.exc, s |-> <<d>> \o r.s]
       IN IF c # "\\" THEN plain(c, i + 1)
          ELSE CASE next \in {"\"", "\\", "/"} -> plain(next, i + 2)
                 [] next = "b" -> plain(Backspace, i + 2)
                 [] next = "f" -> plain("\f", i + 2)
                 [] next = "n" -> plain("\n", i + 2)
                 [] next = "r" -> plain("\r", i + 2)
                 [] next = "t" -> plain("\t", i + 2)
                 [] next = "u" -> plain(c, i + 1)
                 [] OTHER -> [exc |-> "ConversionError", s |-> <<>>]

\* the digits of s from index i on: the index after them (i), how many they
\* are (k), and the natural number they denote when written after acc (m)
RECURSIVE ScanDigits(_, _, _, _)
ScanDigits(s, i, k, acc) ==
  IF i <= Len(s) /\ digit(s[i])
  THEN ScanDigits(s, i + 1, k + 1, 10 * acc + (Code(s[i]) - Code("0")))
  ELSE [i |-> i, k |-> k, m |-> acc]

\* s has one of the characters cs at index i
Has(s, i, cs) == i <= Len(s) /\ s[i] \in cs

\* largest decimal exponent of a finite double
DBL_MAX_10_EXP == 308

\* what std::stod yields for the decimal m * 10^e: invalid_argument when
\* no digit was found (any is false), out_of_range when strtod reports
\* ERANGE (the value is beyond the finite doubles, or nonzero and below
\* the normal ones), else the double
StodResult(neg, m, e, any) ==
  LET n == Num(neg, m, e)
      X == Len(Digits(n.m)) - 1 + n.e
  IN IF ~any THEN [exc |-> "invalid_argument", n |-> Zero]
     ELSE IF n.m # 0 /\ (X > DBL_MAX_10_EXP \/ X < 0 - DBL_MAX_10_EXP)
     THEN [exc |-> "out_of_range", n |-> Zero]
     ELSE [exc |-> "none", n |-> n]

\* the exponent part, after the digits w before and f after the point
StodExponent(s, neg, w, f) ==
  LET x == ScanDigits(s, IF Has(s, f.i + 1, {"+", "-"}) THEN f.i + 2 ELSE f.i + 1,
                      0, 0)
      exp == IF Has(s, f.i, {"e", "E"}) /\ x.k > 0
             THEN (IF Has(s, f.i + 1, {"-"}) THEN 0 - x.m ELSE x.m)
             ELSE 0
  IN StodResult(neg, f.m, exp - f.k, w.k + f.k > 0)

\* the fraction part, after the digits w before the point
StodFraction(s, neg, w) ==
  StodExponent(s, neg, w,
               IF Has(s, w.i, {"."}) THEN ScanDigits(s, w.i + 1, 0, w.m)
               ELSE [w EXCEPT !.k = 0])

\* std::stod(s): the longest prefix of s that is a decimal number, as the
\* double it denotes
Stod(s) ==
  StodFraction(s, Has(s, 1, {"-"}),
               ScanDigits(s, IF Has(s, 1, {"-", "+"}) THEN 2 ELSE 1, 0, 0))

(***************************************************************************)
(* The state.                                                              *)
(*   heap    the cells, by address                                         *)
(*   vars    the Values the caller holds (test, test2 of tests.cpp)        *)
(*   last    the last call made: its operands, what it threw or returned   *)
(*   copies  <<a, b>>: b was copy-constructed or copy-assigned from a and  *)
(*           neither has been assigned since (history)                     *)
(*   given   what each Value was last constructed or assigned with         *)
(*           (history)                                                     *)
(*   calls   the number of calls made so far                               *)
(***************************************************************************)
VARIABLES heap, vars, last, copies, given, calls,
          stream, parser, frames, retval, pc, error

valueVars == <<heap, vars, last, copies, given, calls>>
\* the variables of operator>> (described with its steps)
parserVars == <<stream, parser, frames, retval, pc, error>>
allVars == <<valueVars, parserVars>>
\* the history variables
history == <<last, copies, given, calls>>

Handles == {"test", "test2"}

\* the data the caller hands to the operations
Numbers == {Zero, One}
Strings == {<<"a">>}
Keys == {<<>>, <<"a">>}
Indices ==
  {0, ArrayMaxSize - 1, ArrayMaxSize, SIZE_MAX}
ArrayLiterals == UNION {[1 .. n -> Handles] : n \in 0 .. MaxLen}
\* Object literals of at most one property
ObjectLiterals ==
  UNION {[K -> Handles] : K \in {{}} \cup {{k} : k \in Keys}}

\* a call op on handle h with index i, name and argument arg, its outcome,
\* and the copies relation it started from
Call(op, h, i, name, arg, exc, ret) ==
  [op |-> op, h |-> h, i |-> i, name |-> name, arg |-> arg,
   exc |-> exc, ret |-> ret, copies |-> copies]

Given(type, ret) == [type |-> type, ret |-> ret]

NoCall == [op |-> "none", h |-> "test", i |-> 0, name |-> <<>>,
           arg |-> NullValue, exc |-> "none", ret |-> NoRet, copies |-> {}]

\* one more call, while the caller has calls left
Called == calls < MaxCalls /\ calls' = calls + 1 /\ UNCHANGED parserVars

\* the Values the caller holds
Values(vs) == {vs[x] : x \in Handles}

Without(x) == {p \in copies : p[1] # x /\ p[2] # x}

InitValue ==
  /\ heap = <<BaseCell>>
  /\ vars = [x \in Handles |-> NullValue]
  /\ copies = {}
  /\ last = NoCall
  /\ calls = 0
  /\ given = [x \in Handles |-> Given("null", NoRet)]
  /\ stream = Istream(<<>>, FALSE, {})
  /\ parser = ParserState
  /\ frames = <<>>
  /\ retval = "none"
  /\ pc = "idle"
  /\ error = "none"

\* x = <a Value constructed in heap H as v>, the statement of every
\* assignment from a literal: the temporary is move-assigned to x
AssignTemp(op, x, c, ret) ==
  LET a == MoveAssign(c.h, vars[x], c.v) IN
  /\ Called
  /\ vars' = [vars EXCEPT ![x] = a.v]
  /\ heap' = Release(a.h, Values(vars'))
  /\ last' = Call(op, x, 0, <<>>, a.v, "none", NoRet)
  /\ copies' = Without(x)
  /\ given' = [given EXCEPT ![x] = Given(c.v.type, ret)]

\* test = nullptr
AssignNull(x) ==
  AssignTemp("assignNull", x, ValueNull(heap), NoRet)

\* test = false
AssignBoolean(x, b) ==
  AssignTemp("assignBoolean", x, ValueOf(heap, "boolean", BoolCell(b)),
                [NoRet EXCEPT !.b = b])

\* test = 3.14
AssignNumber(x, n) ==
  AssignTemp("assignNumber", x, ValueOf(heap, "number", DoubleCell(n)),
                [NoRet EXCEPT !.n = n])

\* test = s
AssignString(x, s) ==
  AssignTemp("assignString", x, ValueOf(heap, "string", StringCell(s)),
                [NoRet EXCEPT !.s = s])

\* test = Array{...}: the literal's elements are copies of the caller's
\* Values; Value(Array) moves the literal into a new container
AssignArray(x, lit) ==
  LET es == CopyAll(heap, [k \in DOMAIN lit |-> vars[lit[k]]])
      c == ValueOf(es.h, "array", ArrayCell(es.vs))
  IN AssignTemp("assignArray", x, c, [NoRet EXCEPT !.ref = c.v.impl])

\* test = Object{...}
AssignObject(x, lit) ==
  LET c == ValueOf(heap, "object",
                   ObjectCell([k \in DOMAIN lit |->
                                 CopyCtor(heap, vars[lit[k]]).v]))
  IN AssignTemp("assignObject", x, c, [NoRet EXCEPT !.ref = c.v.impl])

\* test2 = test
Copy(x, y) ==
  LET a == CopyAssign(heap, vars[x], vars[y]) IN
  /\ x # y
  /\ Called
  /\ vars' = [vars EXCEPT ![x] = a.v]
  /\ heap' = Release(a.h, Values(vars'))
  /\ last' = Call("copy", x, 0, <<>>, vars[y], "none", NoRet)
  /\ copies' = Without(x) \cup {<<y, x>>}
  /\ given' = [given EXCEPT ![x] = given[y]]

\* test.asBoolean() and the other accessors: the state is left alone
Get(x, acc) ==
  LET r == Access(acc, heap, vars[x]) IN
  /\ Called
  /\ last' = Call(acc, x, 0, <<>>, NullValue, r.exc, r.ret)
  /\ UNCHANGED <<heap, vars, copies, given>>

\* test.element(i)
GetElement(x, i) ==
  LET r == Element(heap, vars[x], i) IN
  /\ Called
  /\ heap' = r.h
  /\ last' = Call("element", x, i, <<>>, NullValue, r.exc, r.ret)
  /\ UNCHANGED <<vars, copies, given>>

\* test[i] = test2
SetElement(x, i, y) ==
  LET r == Element(heap, vars[x], i) IN
  /\ Called
  /\ heap' = IF r.exc # "none" THEN r.h
             ELSE LET a == CopyAssign(r.h, r.h[r.ret.ref].arr[i + 1], vars[y])
                  IN Release([a.h EXCEPT ![r.ret.ref].arr[i + 1] = a.v],
                             Values(vars))
  /\ last' = Call("setElement", x, i, <<>>, vars[y], r.exc, r.ret)
  /\ UNCHANGED <<vars, copies, given>>

\* test.asArray().push_back(test2); push_back beyond max_size throws
Push(x, y) ==
  LET r == AsArray(heap, vars[x])
      full == r.exc = "none" /\ Len(heap[r.ret.ref].arr) >= ArrayMaxSize
      c == CopyCtor(heap, vars[y])
  IN
  /\ Called
  /\ heap' = IF r.exc # "none" \/ full THEN heap
             ELSE [c.h EXCEPT ![r.ret.ref].arr = Append(@, c.v)]
  /\ last' = Call("push", x, 0, <<>>, vars[y],
                  IF full THEN "length_error" ELSE r.exc, r.ret)
  /\ UNCHANGED <<vars, copies, given>>

\* test.hasProperty(name)
GetHasProperty(x, name) ==
  LET r == HasProperty(heap, vars[x], name) IN
  /\ Called
  /\ last' = Call("hasProperty", x, 0, name, NullValue, r.exc,
                  [NoRet EXCEPT !.b = r.has])
  /\ UNCHANGED <<heap, vars, copies, given>>

\* test.property(name)
GetProperty(x, name) ==
  LET r == Property(heap, vars[x], name) IN
  /\ Called
  /\ heap' = r.h
  /\ last' = Call("property", x, 0, name, NullValue, r.exc, r.ret)
  /\ UNCHANGED <<vars, copies, given>>

\* test[name] = test2
SetProperty(x, name, y) ==
  LET r == Property(heap, vars[x], name) IN
  /\ Called
  /\ heap' = IF r.exc # "none" THEN r.h
             ELSE LET a == CopyAssign(r.h, r.h[r.ret.ref].obj[name], vars[y])
                  IN Release([a.h EXCEPT ![r.ret.ref].obj[name] = a.v],
                             Values(vars))
  /\ last' = Call("setProperty", x, 0, name, vars[y], r.exc, r.ret)
  /\ UNCHANGED <<vars, copies, given>>

NextValue ==
  \/ \E x \in Handles : AssignNull(x)
  \/ \E x \in Handles, b \in BOOLEAN : AssignBoolean(x, b)
  \/ \E x \in Handles, n \in Numbers : AssignNumber(x, n)
  \/ \E x \in Handles, s \in Strings : AssignString(x, s)
  \/ \E x \in Handles, lit \in ArrayLiterals : AssignArray(x, lit)
  \/ \E x \in Handles, lit \in ObjectLiterals : AssignObject(x, lit)
  \/ \E x \in Handles, y \in Handles : Copy(x, y)
  \/ \E x \in Handles, acc \in Accessors : Get(x, acc)
  \/ \E x \in Handles, i \in Indices : GetElement(x, i)
  \/ \E x \in Handles, i \in Indices, y \in Handles : SetElement(x, i, y)
  \/ \E x \in Handles, y \in Handles : Push(x, y)
  \/ \E x \in Handles, name \in Keys : GetHasProperty(x, name)
  \/ \E x \in Handles, name \in Keys : GetProperty(x, name)
  \/ \E x \in Handles, name \in Keys, y \in Handles : SetProperty(x, name, y)

Spec == InitValue /\ [][NextValue]_allVars

(***************************************************************************)
(* Properties of Value, checked under Spec.                                *)
(***************************************************************************)
Range(f) == {f[k] : k \in DOMAIN f}

\* every Value of the state: the caller's, and the slots of the containers
AllValues ==
  Range(vars)
    \cup UNION {Range(heap[a].arr) \cup Range(heap[a].obj) : a \in DOMAIN heap}

\* the container an array or object Value gives access to
Container(H, v) ==
  IF TypeOf(v) = "array" THEN H[AsArray(H, v).ret.ref].arr
  ELSE H[AsObject(H, v).ret.ref].obj

\* Array == Array, Object == Object: the same indices or keys, holding
\* Values that are == one by one
ContentEq(H, a, b) ==
  LET c == Container(H, a)  d == Container(H, b) IN
  /\ DOMAIN c = DOMAIN d
  /\ \A k \in DOMAIN c : Equals(H, c[k], d[k])

\* the two handles of a pair of copies, seen from either side
Sides(p) == {<<p[1], p[2]>>, <<p[2], p[1]>>}

\* C1: an array or object Value and its copy share one container: the two
\* compare equal and give access to the same contents in every state, and
\* what a call through one handle wrote or created (an element assigned, an
\* array grown, an element pushed, a property inserted or assigned) is
\* there through the other handle.
C1_CopiesShareContainer ==
  \A p \in copies : \A q \in Sides(p) :
    LET a == vars[q[1]]  b == vars[q[2]] IN
    IsReference(a) =>
      /\ TypeOf(b) = TypeOf(a)
      /\ Equals(heap, a, b)
      /\ Container(heap, a) = Container(heap, b)
      /\ (last.h = q[1] /\ last.exc = "none") =>
           LET c == Container(heap, b) IN
           /\ last.op = "element" => last.i + 1 \in DOMAIN c
           /\ last.op = "setElement" =>
                last.i + 1 \in DOMAIN c /\ c[last.i + 1] = last.arg
           /\ last.op = "push" => c # <<>> /\ c[Len(c)] = last.arg
           /\ last.op = "property" => last.name \in DOMAIN c
           /\ last.op = "setProperty" =>
                last.name \in DOMAIN c /\ c[last.name] = last.arg

\* C1's case: an element was pushed through the copy of an array Value
C1_Witness ==
  \E p \in copies :
    /\ TypeOf(vars[p[1]]) = "array"
    /\ last.op = "push" /\ last.h = p[2] /\ last.exc = "none"
    /\ Len(Container(heap, vars[p[1]])) > 0

\* what the public queries and accessors show of a Value
Observe(H, v) ==
  [type |-> TypeOf(v), get |-> [acc \in Accessors |-> Access(acc, H, v)]]

\* C2: for a null, boolean, number or string Value and its copy, a call
\* applied to one of the two leaves the type and the payload observed
\* through the other as they were.
C2_ScalarCopiesIndependent ==
  [][\A p \in copies : \A q \in Sides(p) :
       (~IsReference(vars[q[1]]) /\ last'.h = q[1]) =>
         Observe(heap', vars'[q[2]]) = Observe(heap, vars[q[2]])]_valueVars

Assignments ==
  {"assignNull", "assignBoolean", "assignNumber", "assignString",
   "assignArray", "assignObject"}

\* C2's case: the original of a copied string was assigned a new value
C2_Witness ==
  /\ last.op \in Assignments
  /\ \E p \in last.copies :
       /\ last.h = p[1]
       /\ TypeOf(vars[p[2]]) = "string"
       /\ AsString(heap, vars[p[2]]).ret.s = <<"a">>
       /\ TypeOf(vars[p[1]]) # "string"

\* C3 as claimed: two array (or object) Values that refer to different
\* containers compare equal whenever the containers hold equal contents.
C3_EqualByContent ==
  \A a \in AllValues : \A b \in AllValues :
    (IsReference(a) /\ TypeOf(a) = TypeOf(b) /\ a.impl # b.impl
       /\ ContentEq(heap, a, b))
      => Equals(heap, a, b)

\* C3 amended: two array (or object) Values that refer to different
\* containers compare unequal, whatever the containers hold.
C3_UnequalAcrossContainers ==
  LET all == {v \in AllValues : IsReference(v)} IN
  \A a \in all : \A b \in all : a.impl # b.impl => ~Equals(heap, a, b)

\* C3's case: two containers built separately that hold equal contents
C3_Witness ==
  \E x \in Handles : \E y \in Handles :
    /\ IsReference(vars[x]) /\ TypeOf(vars[x]) = TypeOf(vars[y])
    /\ vars[x].impl # vars[y].impl
    /\ ContentEq(heap, vars[x], vars[y])

\* the payloads two Values of one scalar type show, compared with ==
PayloadEq(H, a, b) ==
  CASE TypeOf(a) = "boolean" -> AsBoolean(H, a).ret.b = AsBoolean(H, b).ret.b
    [] TypeOf(a) = "number" -> NumEq(AsNumber(H, a).ret.n, AsNumber(H, b).ret.n)
    [] TypeOf(a) = "string" -> AsString(H, a).ret.s = AsString(H, b).ret.s
    [] OTHER -> FALSE

C5_AccessorsMatchType ==
  /\ \A v \in AllValues : \A acc \in Accessors :
       LET r == Access(acc, heap, v) IN
       /\ r.exc \in {"none", "TypeError"}
       /\ r.exc = "TypeError" <=> TypeOf(v) # AccessorType(acc)
  /\ \A x \in Handles :
       /\ given[x].type = TypeOf(vars[x])
       /\ \A acc \in Accessors :
            LET r == Access(acc, heap, vars[x]) IN
            r.exc = "none" => r.ret = given[x].ret
  /\ last.op \in Accessors =>
       /\ last.exc = "TypeError" <=> TypeOf(vars[last.h]) # AccessorType(last.op)
       /\ last.exc = "none" => last.ret = given[last.h].ret

\* C5's case: asString called on a copy of a string Value
C5_Witness ==
  /\ last.op = "asString" /\ last.exc = "none" /\ last.ret.s = <<"a">>
  /\ \E p \in copies : last.h = p[2]

\* heap J is heap H but for the cell at ref
SameBut(H, J, ref) ==
  DOMAIN J = DOMAIN H /\ \A a \in DOMAIN H : a # ref => J[a] = H[a]

\* the array grown to index i: exactly i + 1 slots, the old ones as they
\* were, the new ones null
Grown(old, new, i) ==
  /\ Len(new) = i + 1
  /\ \A k \in 1 .. Len(old) : new[k] = old[k]
  /\ \A k \in Len(old) + 1 .. i + 1 : TypeOf(new[k]) = "null"

\* C6 as claimed: element(i) on an array of length n grows it to exactly
\* i + 1 slots for every n <= i < SIZE_MAX, leaves it alone for i < n, and
\* throws out_of_range, leaving it alone, for i >= SIZE_MAX.
C6_GrowsBelowSizeMax ==
  [][(last'.op = "element" /\ TypeOf(vars[last'.h]) = "array") =>
       LET ref == vars[last'.h].impl
           i == last'.i
           old == heap[ref].arr
           new == heap'[ref].arr
       IN /\ SameBut(heap, heap', ref)
          /\ i >= SIZE_MAX => last'.exc = "out_of_range" /\ new = old
          /\ i < Len(old) => last'.exc = "none" /\ new = old
          /\ (Len(old) <= i /\ i < SIZE_MAX) =>
               last'.exc = "none" /\ Grown(old, new, i)
          /\ last'.exc = "none" => last'.ret.ref = ref /\ last'.ret.idx = i
    ]_valueVars

\* C6 amended: element(i) on an array of length n grows it to exactly i + 1
\* slots (old slots unchanged, new slots null) for n <= i < max_size();
\* for max_size() <= i < SIZE_MAX, with n <= i, the resize throws
\* std::length_error and the array is unchanged; for i < n the array is
\* unchanged; for i >= SIZE_MAX out_of_range is thrown and the array is
\* unchanged.  When nothing is thrown the reference returned is slot i of
\* the shared array.
C6_GrowsBelowMaxSize ==
  [][(last'.op = "element" /\ TypeOf(vars[last'.h]) = "array") =>
       LET ref == vars[last'.h].impl
           i == last'.i
           old == heap[ref].arr
           new == heap'[ref].arr
       IN /\ SameBut(heap, heap', ref)
          /\ i >= SIZE_MAX => last'.exc = "out_of_range" /\ new = old
          /\ i < Len(old) => last'.exc = "none" /\ new = old
          /\ (Len(old) <= i /\ i < ArrayMaxSize) =>
               last'.exc = "none" /\ Grown(old, new, i)
          /\ (Len(old) <= i /\ ArrayMaxSize <= i /\ i < SIZE_MAX) =>
               last'.exc = "length_error" /\ new = old
          /\ last'.exc = "none" => last'.ret.ref = ref /\ last'.ret.idx = i
    ]_valueVars

\* C6's case: element(i) returned slot i >= 1 of an array of i + 1 slots
\* whose first slot holds a value and whose last is null
C6_Witness ==
  /\ last.op = "element" /\ last.exc = "none" /\ last.i >= 1
  /\ LET arr == heap[last.ret.ref].arr IN
     /\ Len(arr) = last.i + 1
     /\ TypeOf(arr[1]) # "null"
     /\ TypeOf(arr[Len(arr)]) = "null"

\* C7: property(name) on an object that lacks name inserts name mapped to
\* null and changes no other entry; on an object that has name it changes
\* nothing; either way hasProperty(name) is true afterwards.  hasProperty
\* changes nothing, throws nothing, and is false on a Value that is no
\* object.
C7_PropertyInsertsNull ==
  [][/\ (last'.op = "property" /\ TypeOf(vars[last'.h]) = "object") =>
          LET ref == vars[last'.h].impl
              name == last'.name
              old == heap[ref].obj
              new == heap'[ref].obj
          IN /\ last'.exc = "none"
             /\ last'.ret.ref = ref /\ last'.ret.key = name
             /\ SameBut(heap, heap', ref)
             /\ DOMAIN new = DOMAIN old \cup {name}
             /\ \A k \in DOMAIN old : new[k] = old[k]
             /\ name \notin DOMAIN old => TypeOf(new[name]) = "null"
             /\ HasProperty(heap', vars'[last'.h], name).has
     /\ last'.op = "hasProperty" =>
          /\ heap' = heap /\ vars' = vars
          /\ last'.exc = "none"
          /\ last'.ret.b =
               (/\ TypeOf(vars[last'.h]) = "object"
                /\ last'.name \in DOMAIN heap[vars[last'.h].impl].obj)
    ]_valueVars

\* C7's case: property(name) returned an entry mapped to null beside
\* another entry that holds a value
C7_Witness ==
  /\ last.op = "property" /\ last.exc = "none"
  /\ LET obj == heap[last.ret.ref].obj IN
     /\ TypeOf(obj[last.name]) = "null"
     /\ \E k \in DOMAIN obj : k # last.name /\ TypeOf(obj[k]) # "null"

(***************************************************************************)
(* operator>> and Parser::parseObject, step by step.                       *)
(*   stream  the std::istream read from                                    *)
(*   parser  the Parser::State of the Parser that operator>> creates       *)
(*   frames  the rules being applied, innermost last: each the Rule and    *)
(*           the stage it has reached                                      *)
(*   retval  what the rule that returned last returned ("true", "false"),  *)
(*           "none" when a rule has just been entered                      *)
(*   pc      where operator>> is: "ready" before the call, "parsing",      *)
(*           "thrown" while an exception leaves parseObject, and at last   *)
(*           "parsed" (returned, value assigned), "failed" (returned,      *)
(*           ParserError caught) or "escaped" (the exception left          *)
(*           operator>>); "idle" when nothing is extracted                 *)
(*   error   the exception thrown, "none" when none was                    *)
(* The Value extracted into is test.                                       *)
(***************************************************************************)
\* a rule that is called now; entry (history) is the position of the stream
\* when it is called
Frame(rule) == [rule |-> rule, stage |-> 0, entry |-> stream.pos]

\* the innermost rule being applied
Top == frames[Len(frames)]

\* a rule built by the generator op is to take its next step
At(op) == pc = "parsing" /\ frames # <<>> /\ Top.rule.op = op

\* the rule at the top calls rule, and will go on at stage
Enter(rule, stage) ==
  /\ frames' = [frames EXCEPT ![Len(frames)].stage = stage] \o <<Frame(rule)>>
  /\ retval' = "none"
  /\ UNCHANGED <<pc, error>>

\* the rule at the top returns success
Leave(success) ==
  /\ frames' = SubSeq(frames, 1, Len(frames) - 1)
  /\ retval' = IF success THEN "true" ELSE "false"
  /\ UNCHANGED <<pc, error>>

\* the rule at the top throws e: the stack is unwound up to operator>>
Raise(e) ==
  /\ frames' = <<>>
  /\ retval' = "none"
  /\ pc' = "thrown"
  /\ error' = e

\* class ParserError and the classes derived from it
ParserError == {"SyntaxError", "ConversionError"}

\* Parser::read(int what, in) with getc called whether or not the
\* character is what
RunTerminalEager ==
  /\ At("terminal")
  /\ \E p \in Peek(stream) :
       LET success == p.c = Top.rule.what
           g == Getc(parser, p.in)
       IN /\ stream' = g.in
          /\ parser' = g.parser
          /\ Leave(success)
  /\ UNCHANGED <<heap, vars, history>>

\* Parser::read(int what, in), the Rule terminal(what) makes
RunTerminal ==
  /\ At("terminal")
  /\ \E p \in Peek(stream) :
       LET success == p.c = Top.rule.what
           g == Getc(parser, p.in)
       IN /\ stream' = IF success THEN g.in ELSE p.in
          /\ parser' = IF success THEN g.parser ELSE parser
          /\ Leave(success)
  /\ UNCHANGED <<heap, vars, history>>

\* Parser::read(CharClass filter, in) without the call of getc
RunTerminalClassPeek ==
  /\ At("terminalClass")
  /\ \E p \in Peek(stream) :
       /\ stream' = p.in
       /\ Leave(CharClass(Top.rule.filter, p.c))
  /\ UNCHANGED <<heap, vars, history, parser>>

\* Parser::read(CharClass filter, in), the Rule terminal(filter) makes
RunTerminalClass ==
  /\ At("terminalClass")
  /\ \E p \in Peek(stream) :
       LET success == CharClass(Top.rule.filter, p.c)
           g == Getc(parser, p.in)
       IN /\ stream' = IF success THEN g.in ELSE p.in
          /\ parser' = IF success THEN g.parser ELSE parser
          /\ Leave(success)
  /\ UNCHANGED <<heap, vars, history>>

\* Parser::parse(id, in), the Rule nonterminal(id) makes: applies rule(id)
\* and returns what it returned
RunNonterminal ==
  /\ At("nonterminal")
  /\ IF Top.stage = 0 THEN Enter(initialRules[Top.rule.id], 1)
     ELSE Leave(retval = "true")
  /\ UNCHANGED <<heap, vars, history, stream, parser>>

\* require(rule): rule(parser, in) || throw SyntaxError
RunRequire ==
  /\ At("require")
  /\ IF Top.stage = 0 THEN Enter(Top.rule.rule, 1)
     ELSE IF retval = "true" THEN Leave(TRUE)
     ELSE Raise("SyntaxError")
  /\ UNCHANGED <<heap, vars, history, stream, parser>>

\* optional(rule): rule(parser, in) || true
RunOptional ==
  /\ At("optional")
  /\ IF Top.stage = 0 THEN Enter(Top.rule.rule, 1) ELSE Leave(TRUE)
  /\ UNCHANGED <<heap, vars, history, stream, parser>>

\* multiple(rule): while (in && rule(parser, in)) {} return true
RunMultiple ==
  /\ At("multiple")
  /\ IF (Top.stage = 0 \/ retval = "true") /\ NotFail(stream)
     THEN Enter(Top.rule.rule, 1)
     ELSE Leave(TRUE)
  /\ UNCHANGED <<heap, vars, history, stream, parser>>

\* both(first, second): first(parser, in) && second(parser, in)
RunBoth ==
  /\ At("both")
  /\ CASE Top.stage = 0 -> Enter(Top.rule.first, 1)
       [] Top.stage = 1 ->
            IF retval = "true" THEN Enter(Top.rule.second, 2) ELSE Leave(FALSE)
       [] OTHER -> Leave(retval = "true")
  /\ UNCHANGED <<heap, vars, history, stream, parser>>

\* either(first, second): first(parser, in) || second(parser, in)
RunEither ==
  /\ At("either")
  /\ CASE Top.stage = 0 -> Enter(Top.rule.first, 1)
       [] Top.stage = 1 ->
            IF retval = "true" THEN Leave(TRUE) ELSE Enter(Top.rule.second, 2)
       [] OTHER -> Leave(retval = "true")
  /\ UNCHANGED <<heap, vars, history, stream, parser>>

\* a member function of Parser used as a Rule is to be called
AtFn(fn) == At("memFn") /\ Top.rule.fn = fn

\* Parser::value(): the top of the value stack
TopValue == parser.valueStack[Len(parser.valueStack)]

\* Parser::beginToken
BeginToken ==
  /\ AtFn("beginToken")
  /\ parser' = [parser EXCEPT !.buffer = <<>>]
  /\ Leave(TRUE)
  /\ UNCHANGED <<heap, vars, history, stream>>

\* Parser::pushObject: pushValue(Object())
PushObject ==
  /\ AtFn("pushObject")
  /\ LET a == ValueOf(heap, "object", ObjectCell(EmptyObject)) IN
     /\ heap' = a.h
     /\ parser' = [parser EXCEPT !.valueStack = Append(@, a.v)]
  /\ Leave(TRUE)
  /\ UNCHANGED <<vars, history, stream>>

\* Parser::pushArray: pushValue(Array())
PushArray ==
  /\ AtFn("pushArray")
  /\ LET a == ValueOf(heap, "array", ArrayCell(<<>>)) IN
     /\ heap' = a.h
     /\ parser' = [parser EXCEPT !.valueStack = Append(@, a.v)]
  /\ Leave(TRUE)
  /\ UNCHANGED <<vars, history, stream>>

\* Parser::finishCompound: popValue() (undefined on an empty stack)
FinishCompound ==
  /\ AtFn("finishCompound")
  /\ IF parser.valueStack = <<>>
     THEN Raise("undefined") /\ UNCHANGED parser
     ELSE /\ parser' = [parser EXCEPT
                          !.valueStack = SubSeq(@, 1, Len(@) - 1)]
          /\ Leave(TRUE)
  /\ UNCHANGED <<heap, vars, history, stream>>

\* Parser::compileName: pushName(result().asString())
CompileName ==
  /\ AtFn("compileName")
  /\ LET r == AsString(heap, parser.result) IN
     IF r.exc # "none" THEN Raise(r.exc) /\ UNCHANGED parser
     ELSE /\ parser' = [parser EXCEPT !.nameStack = Append(@, r.ret.s)]
          /\ Leave(TRUE)
  /\ UNCHANGED <<heap, vars, history, stream>>

\* Parser::compileProperty: value().asObject()[popName()] = result()
\* (undefined on an empty stack; asObject is called, and may throw, before
\* the name is popped)
CompileProperty ==
  /\ AtFn("compileProperty")
  /\ IF parser.valueStack = <<>> \/ parser.nameStack = <<>>
     THEN Raise("undefined") /\ UNCHANGED <<heap, parser>>
     ELSE LET r == AsObject(heap, TopValue)
              name == parser.nameStack[Len(parser.nameStack)]
              a == CopyAssign(heap, NullValue, parser.result)
          IN IF r.exc # "none" THEN Raise(r.exc) /\ UNCHANGED <<heap, parser>>
             ELSE /\ heap' = [a.h EXCEPT ![r.ret.ref].obj = (name :> a.v) @@ @]
                  /\ parser' = [parser EXCEPT
                                  !.nameStack = SubSeq(@, 1, Len(@) - 1)]
                  /\ Leave(TRUE)
  /\ UNCHANGED <<vars, history, stream>>

\* Parser::compileArrayElement: value().asArray().push_back(result())
\* (push_back throws std::length_error on an array of max_size elements)
CompileArrayElement ==
  /\ AtFn("compileArrayElement")
  /\ IF parser.valueStack = <<>>
     THEN Raise("undefined") /\ UNCHANGED heap
     ELSE LET r == AsArray(heap, TopValue)
              c == CopyCtor(heap, parser.result)
          IN IF r.exc # "none" THEN Raise(r.exc) /\ UNCHANGED heap
             ELSE IF Len(heap[r.ret.ref].arr) >= ArrayMaxSize
             THEN Raise("length_error") /\ UNCHANGED heap
             ELSE /\ heap' = [c.h EXCEPT ![r.ret.ref].arr = Append(@, c.v)]
                  /\ Leave(TRUE)
  /\ UNCHANGED <<vars, history, stream, parser>>

\* Parser::compileCompound: result() = value()
CompileCompound ==
  /\ AtFn("compileCompound")
  /\ IF parser.valueStack = <<>>
     THEN Raise("undefined") /\ UNCHANGED <<heap, parser>>
     ELSE LET a == CopyAssign(heap, parser.result, TopValue) IN
          /\ heap' = a.h
          /\ parser' = [parser EXCEPT !.result = a.v]
          /\ Leave(TRUE)
  /\ UNCHANGED <<vars, history, stream>>

\* Parser::compileString
CompileString ==
  /\ AtFn("compileString")
  /\ LET source == parser.buffer
         length == Len(source)
         r == CompileStringLoop(SubSeq(source, 2, length - 1), 0)
         a == ValueOf(heap, "string", StringCell(r.s))
         m == MoveAssign(a.h, parser.result, a.v)
     IN IF ~(length >= 2 /\ source[1] = "\"" /\ source[length] = "\"")
        THEN Raise("ConversionError") /\ UNCHANGED <<heap, parser>>
        ELSE IF r.exc # "none" THEN Raise(r.exc) /\ UNCHANGED <<heap, parser>>
        ELSE /\ heap' = m.h
             /\ parser' = [parser EXCEPT !.result = m.v]
             /\ Leave(TRUE)
  /\ UNCHANGED <<vars, history, stream>>

\* Parser::compileNumber: std::invalid_argument is rethrown as a
\* ConversionError, std::out_of_range is let through
CompileNumber ==
  /\ AtFn("compileNumber")
  /\ LET r == Stod(parser.buffer)
         a == ValueOf(heap, "number", DoubleCell(r.n))
         m == MoveAssign(a.h, parser.result, a.v)
     IN IF r.exc = "invalid_argument"
        THEN Raise("ConversionError") /\ UNCHANGED <<heap, parser>>
        ELSE IF r.exc # "none" THEN Raise(r.exc) /\ UNCHANGED <<heap, parser>>
        ELSE /\ heap' = m.h
             /\ parser' = [parser EXCEPT !.result = m.v]
             /\ Leave(TRUE)
  /\ UNCHANGED <<vars, history, stream>>

\* Parser::compileSymbol
CompileSymbol ==
  /\ AtFn("compileSymbol")
  /\ LET symbol == parser.buffer
         a == CASE symbol = <<"t", "r", "u", "e">> ->
                     ValueOf(heap, "boolean", BoolCell(TRUE))
                [] symbol = <<"f", "a", "l", "s", "e">> ->
                     ValueOf(heap, "boolean", BoolCell(FALSE))
                [] OTHER -> ValueNull(heap)
         m == MoveAssign(a.h, parser.result, a.v)
     IN IF symbol \in {<<"t", "r", "u", "e">>, <<"f", "a", "l", "s", "e">>,
                       <<"n", "u", "l", "l">>}
        THEN /\ heap' = m.h
             /\ parser' = [parser EXCEPT !.result = m.v]
             /\ Leave(TRUE)
        ELSE Raise("SyntaxError") /\ UNCHANGED <<heap, parser>>
  /\ UNCHANGED <<vars, history, stream>>

\* in >> test, up to the call of the rule in Parser().parseObject(in):
\* result() = {}; require(nonterminal("object"))(*this, in)
Extract ==
  /\ pc = "ready"
  /\ pc' = "parsing"
  /\ parser' = [parser EXCEPT !.result = MoveAssign(heap, @, NullValue).v]
  /\ frames' = <<Frame(require(nonterminal("object")))>>
  /\ retval' = "none"
  /\ UNCHANGED <<heap, vars, history, stream, error>>

\* the rule has returned: parseObject returns result(), which operator>>
\* assigns to test
ExtractReturn ==
  /\ pc = "parsing" /\ frames = <<>>
  /\ LET c == CopyCtor(heap, parser.result)
         m == MoveAssign(c.h, vars["test"], c.v)
     IN /\ heap' = m.h
        /\ vars' = [vars EXCEPT !["test"] = m.v]
  /\ pc' = "parsed"
  /\ UNCHANGED <<history, stream, parser, frames, retval, error>>

\* the rule has thrown: catch (ParserError&) { value = {}; in.setstate(
\* std::ios_base::failbit); }; any other exception leaves operator>>
ExtractCatch ==
  /\ pc = "thrown"
  /\ IF error \in ParserError
     THEN /\ vars' = [vars EXCEPT
                        !["test"] = MoveAssign(heap, @, NullValue).v]
          /\ stream' = [stream EXCEPT !.failbit = TRUE]
          /\ pc' = "failed"
     ELSE /\ pc' = "escaped"
          /\ UNCHANGED <<vars, stream>>
  /\ UNCHANGED <<heap, history, parser, frames, retval, error>>

(***************************************************************************)
(* The Values that are formatted and then extracted, and the texts         *)
(* extracted from.                                                         *)
(***************************************************************************)
\* what a Value is constructed from: a scalar, or an Array or an Object of
\* such
Literal(type, b, n, s, items, props) ==
  [type |-> type, b |-> b, n |-> n, s |-> s, items |-> items, props |-> props]
NullLiteral == Literal("null", FALSE, Zero, <<>>, <<>>, <<>>)
BooleanLiteral(b) == Literal("boolean", b, Zero, <<>>, <<>>, <<>>)
NumberLiteral(n) == Literal("number", FALSE, n, <<>>, <<>>, <<>>)
StringLiteral(s) == Literal("string", FALSE, Zero, s, <<>>, <<>>)
\* Array{items}
ArrayLiteral(items) == Literal("array", FALSE, Zero, <<>>, items, <<>>)
\* Object{{props[1][1], props[1][2]}, ..}: pairs of a key and a literal, in
\* the order of the keys
ObjectLiteral(props) == Literal("object", FALSE, Zero, <<>>, <<>>, props)

\* Value(literal), built in heap H: the heap it leaves (h) and the Value (v)
RECURSIVE Construct(_, _)
RECURSIVE ConstructAll(_, _)
Construct(H, lit) ==
  CASE lit.type = "boolean" -> ValueOf(H, "boolean", BoolCell(lit.b))
    [] lit.type = "number" -> ValueOf(H, "number", DoubleCell(lit.n))
    [] lit.type = "string" -> ValueOf(H, "string", StringCell(lit.s))
    [] lit.type = "array" ->
         LET c == ConstructAll(H, lit.items) IN
         ValueOf(c.h, "array", ArrayCell(c.vs))
    [] lit.type = "object" ->
         LET c == ConstructAll(H, [k \in DOMAIN lit.props |-> lit.props[k][2]])
             keys == {lit.props[k][1] : k \in DOMAIN lit.props}
             at(key) == CHOOSE k \in DOMAIN lit.props : lit.props[k][1] = key
         IN ValueOf(c.h, "object", ObjectCell([key \in keys |-> c.vs[at(key)]]))
    [] OTHER -> ValueNull(H)
\* the Values of the literals lits, in order
ConstructAll(H, lits) ==
  IF lits = <<>> THEN [h |-> H, vs |-> <<>>]
  ELSE LET c == Construct(H, Head(lits))
           r == ConstructAll(c.h, Tail(lits))
       IN [h |-> r.h, vs |-> <<c.v>> \o r.vs]

\* the scalars
Scalars ==
  {NullLiteral, BooleanLiteral(TRUE), BooleanLiteral(FALSE),
   NumberLiteral(Zero), NumberLiteral(One), NumberLiteral(Num(TRUE, 25, -1)),
   StringLiteral(<<>>), StringLiteral(<<"a">>), StringLiteral(<<"\"">>)}

\* sequences of at most n elements of S
UpTo(S, n) == UNION {[1 .. k -> S] : k \in 0 .. n}

\* the Arrays of at most MaxLen elements of S and the Objects of at most one
\* property with a value of S
Compounds(S) ==
  {ArrayLiteral(items) : items \in UpTo(S, MaxLen)}
    \cup {ObjectLiteral(<<>>)}
    \cup {ObjectLiteral(<<<<k, x>>>>) : k \in Keys, x \in S}

\* an Array or Object of one element or property of S
Wrapped(S) ==
  {ArrayLiteral(<<x>>) : x \in S}
    \cup {ObjectLiteral(<<<<k, x>>>>) : k \in Keys, x \in S}

\* the literals formatted: scalars, compounds of scalars, and compounds
\* of one such compound
Literals == Scalars \cup Compounds(Scalars) \cup Wrapped(Compounds(Scalars))

\* the characters a text decided while it is read is made of
Alphabet == {"{", "}", "[", "]", "\"", ":", " "}

\* a text given as a whole: the one of the specification's example
Texts == {<<"{", " ", "i", "n", "v", "a", "l", "i", "d">>}

\* the state before in >> test: test and test2 as constructed, test2 = v in
\* heap H, and a fresh Parser reading stream S; made is the call that made
\* the text
Before(H, v, S, made) ==
  /\ heap = H
  /\ vars = [x \in Handles |-> IF x = "test2" THEN v ELSE NullValue]
  /\ copies = {}
  /\ last = made
  /\ calls = 0
  /\ given = [x \in Handles |-> Given("null", NoRet)]
  /\ stream = S
  /\ parser = ParserState
  /\ frames = <<>>
  /\ retval = "none"
  /\ pc = "ready"
  /\ error = "none"

\* out << test2
Formatted == [NoCall EXCEPT !.op = "format", !.h = "test2"]

InitParse ==
  \/ Before(<<BaseCell>>, NullValue, Istream(<<>>, TRUE, Alphabet), NoCall)
  \/ \E text \in Texts :
       Before(<<BaseCell>>, NullValue, Istream(text, FALSE, {}), NoCall)
  \/ \E lit \in Literals :
       LET c == Construct(<<BaseCell>>, lit) IN
       Before(c.h, c.v, Istream(FormatValue(c.h, c.v), FALSE, {}), Formatted)

NextParse ==
  \/ Extract
  \/ RunTerminal
  \/ RunTerminalClass
  \/ RunNonterminal
  \/ RunRequire
  \/ RunOptional
  \/ RunMultiple
  \/ RunBoth
  \/ RunEither
  \/ BeginToken
  \/ PushObject
  \/ PushArray
  \/ FinishCompound
  \/ CompileName
  \/ CompileProperty
  \/ CompileArrayElement
  \/ CompileCompound
  \/ CompileString
  \/ CompileNumber
  \/ CompileSymbol
  \/ ExtractReturn
  \/ ExtractCatch

ParseSpec == InitParse /\ [][NextParse]_allVars

(***************************************************************************)
(* Properties of operator>>, parseObject and the Formatter, checked under  *)
(* ParseSpec.                                                              *)
(***************************************************************************)
\* operator>> has returned or thrown
Final == {"parsed", "failed", "escaped"}

\* C8 as claimed: for every Value v built from the scalar, Array and Object
\* forms (test2), extracting from the text the Formatter printed for v
\* succeeds and leaves a Value (test) with test == v.
C8_RoundTrip ==
  (last.op = "format" /\ pc \in Final) =>
    /\ pc = "parsed"
    /\ Equals(heap, vars["test"], vars["test2"])

\* C8's failing case: v = Value(Object{}) was printed as {} and extracting
\* from that text returned, leaving null
C8_Witness ==
  /\ last.op = "format"
  /\ TypeOf(vars["test2"]) = "object"
  /\ DOMAIN Container(heap, vars["test2"]) = {}
  /\ stream.text = <<"{", "}">>
  /\ pc = "parsed"
  /\ TypeOf(vars["test"]) = "null"

\* C9 as claimed: whenever parseObject returns (no exception), what it
\* returns, which operator>> assigns to test, is an object; for the texts
\* {} and { } it is an empty object.
C9_ParseObjectReturnsObject ==
  pc = "parsed" =>
    /\ TypeOf(vars["test"]) = "object"
    /\ stream.text \in {<<"{", "}">>, <<"{", " ", "}">>} =>
         DOMAIN Container(heap, vars["test"]) = {}

\* C9's failing case: parseObject returned null for the text { }
C9_Witness ==
  /\ stream.text = <<"{", " ", "}">>
  /\ stream.pos = 3
  /\ pc = "parsed"
  /\ TypeOf(vars["test"]) = "null"

\* C10 as claimed: when parsing fails (an exception is thrown in
\* parseObject), operator>> returns with test reset to null and the
\* stream's failbit set, and no exception leaves operator>>.
C10_ExtractNeverThrows ==
  (pc \in Final /\ error # "none") =>
    /\ pc = "failed"
    /\ TypeOf(vars["test"]) = "null"
    /\ stream.failbit

\* C10's failing case: a TypeError left operator>> on the text {"a": []}
C10_Witness ==
  /\ stream.text = <<"{", "\"", "a", "\"", ":", " ", "[", "]", "}">>
  /\ pc = "escaped"
  /\ error = "TypeError"

(***************************************************************************)
(* Numbers in value position: a token written as the value of a property   *)
(* or as the element of an array.                                          *)
(***************************************************************************)
\* longest token made of every combination of NumberAlphabet
MaxToken == 3

NumberAlphabet == {"0", "1", "-", "+", ".", "e", "E"}

\* the tokens of the specification's examples, and one beyond the doubles
NumberExamples ==
  {<<"0">>, <<"-", "0">>, <<"3", ".", "1", "4">>, <<"1", "e", "1", "0">>,
   <<"0", "1">>, <<"+", "1">>, <<"1", ".">>, <<".", "5">>, <<"-">>,
   <<"1", "e">>, <<"1", "e", "9", "9", "9">>}

NumberTokens == (UpTo(NumberAlphabet, MaxToken) \ {<<>>}) \cup NumberExamples

\* the text with tok as the value of a property, and as an array element
InValue(tok) == <<"{", "\"", "\"", ":">> \o tok \o <<"}">>
InElement(tok) == <<"{", "\"", "\"", ":", "[">> \o tok \o <<"]", "}">>

\* a fresh Parser and a null test, about to extract from text
BeforeText(text) ==
  Before(<<BaseCell>>, NullValue, Istream(text, FALSE, {}), NoCall)

InitNumber ==
  \E tok \in NumberTokens : \E text \in {InValue(tok), InElement(tok)} :
    BeforeText(text)

NumberSpec == InitNumber /\ [][NextParse]_allVars

\* the token of the text of InitNumber
IsElementText == Has(stream.text, 5, {"["})
NumberToken ==
  IF IsElementText THEN SubSeq(stream.text, 6, Len(stream.text) - 2)
  ELSE SubSeq(stream.text, 5, Len(stream.text) - 1)

Digit09 == {"0", "1", "2", "3", "4", "5", "6", "7", "8", "9"}

\* the index after the digits of s that start at index i
RECURSIVE SkipDigits(_, _)
SkipDigits(s, i) ==
  IF Has(s, i, Digit09) THEN SkipDigits(s, i + 1) ELSE i

\* -?(0|[1-9][0-9]*)(\.[0-9]+)?([eE][+-]?[0-9]+)? matched from the left:
\* the index after each part, 0 when the part is missing
AfterSign(s) == IF Has(s, 1, {"-"}) THEN 2 ELSE 1
AfterInteger(s, i) ==
  IF Has(s, i, {"0"}) THEN i + 1
  ELSE IF Has(s, i, Digit09) THEN SkipDigits(s, i + 1)
  ELSE 0
AfterFraction(s, i) ==
  IF Has(s, i, {"."}) /\ Has(s, i + 1, Digit09) THEN SkipDigits(s, i + 1)
  ELSE i
AfterSignOfExponent(s, i) == IF Has(s, i, {"+", "-"}) THEN i + 1 ELSE i
AfterExponent(s, i) ==
  IF Has(s, i, {"e", "E"}) /\ Has(s, AfterSignOfExponent(s, i + 1), Digit09)
  THEN SkipDigits(s, AfterSignOfExponent(s, i + 1))
  ELSE i
\* s matches the expression as a whole
IsNumberToken(s) ==
  /\ AfterInteger(s, AfterSign(s)) # 0
  /\ AfterExponent(s, AfterFraction(s, AfterInteger(s, AfterSign(s))))
       = Len(s) + 1

\* test is the object of the text of InitNumber and its value position
\* holds a Value of the type
HoldsAtValue(type) ==
  /\ TypeOf(vars["test"]) = "object"
  /\ DOMAIN Container(heap, vars["test"]) = {<<>>}
  /\ LET v == Container(heap, vars["test"])[<<>>] IN
     IF IsElementText
     THEN /\ TypeOf(v) = "array"
          /\ DOMAIN Container(heap, v) = {1}
          /\ TypeOf(Container(heap, v)[1]) = type
     ELSE TypeOf(v) = type

\* C11 as claimed: a token in value position (property value or array
\* element) is accepted, and yields a number Value there, exactly when it
\* matches -?(0|[1-9][0-9]*)(\.[0-9]+)?([eE][+-]?[0-9]+)?; every other
\* token makes the parse fail with a syntax error.
C11_NumberGrammar ==
  pc \in Final =>
    IF IsNumberToken(NumberToken)
    THEN pc = "parsed" /\ HoldsAtValue("number")
    ELSE pc = "failed" /\ error = "SyntaxError"

\* C11's failing case: the token 1e999 matches the expression, and
\* std::out_of_range left operator>>
C11_Witness ==
  /\ NumberToken = <<"1", "e", "9", "9", "9">>
  /\ IsNumberToken(NumberToken)
  /\ pc = "escaped"
  /\ error = "out_of_range"

\* C11 for the tokens that denote a double: accepted as a number exactly
\* when the token matches the expression, a syntax error otherwise
C11_GrammarWithinDoubles ==
  (pc \in Final /\ error # "out_of_range") =>
    IF IsNumberToken(NumberToken)
    THEN pc = "parsed" /\ HoldsAtValue("number")
    ELSE pc = "failed" /\ error = "SyntaxError"

(***************************************************************************)
(* Whitespace: a text is extracted, and then the same text with whitespace *)
(* inserted between two of its tokens (before the first and after the last *)
(* included) is extracted by a second Parser.                              *)
(***************************************************************************)
\* most whitespace characters inserted
MaxSpaces == 1

WhitespaceChars == {" ", "\t", "\r", "\n"}

\* the characters of numbers and of true, false, null
WordChars == {c \in Range(Printable) : letter(c) \/ digit(c)} \cup {"-", "+", "."}

\* the places of text, from character i on, that are between two tokens: p
\* is the place after the first p characters; inString: character i is
\* within a string token
RECURSIVE Boundaries(_, _, _)
Boundaries(text, i, inString) ==
  IF i > Len(text) THEN (IF inString THEN {} ELSE {Len(text)})
  ELSE (IF inString \/ (i > 1 /\ text[i - 1] \in WordChars /\ text[i] \in WordChars)
        THEN {} ELSE {i - 1})
       \cup (IF inString /\ text[i] = "\\" THEN Boundaries(text, i + 2, TRUE)
             ELSE IF text[i] = "\"" THEN Boundaries(text, i + 1, ~inString)
             ELSE Boundaries(text, i + 1, inString))

\* text with ws inserted after its first p characters
Insert(text, p, ws) ==
  SubSeq(text, 1, p) \o ws \o SubSeq(text, p + 1, Len(text))

\* texts with a comma, which the Formatter prints for no literal of one
\* element
SpacedExamples ==
  {<<"{", "\"", "a", "\"", ":", "1", ",", "\"", "b", "\"", ":", "[", "0",
     ",", "-", "5", "]", "}">>,
   <<"{", "\"", "a", "\"", ":", "\"", "x", " ", "\"", ",", "\"", "b", "\"",
     ":", "{", "\"", "c", "\"", ":", "n", "u", "l", "l", "}", "}">>}

\* what the Formatter prints for the Object literals, and the examples
ObjectTexts ==
  {LET c == Construct(<<BaseCell>>, lit) IN FormatValue(c.h, c.v) :
     lit \in {l \in Literals : l.type = "object"}}
    \cup SpacedExamples

InitSpaces == \E text \in ObjectTexts : BeforeText(text)

\* test2 = test; then in >> test with a new Parser, on the text just
\* accepted with whitespace inserted between two tokens
ExtractSpaced ==
  /\ pc = "parsed"
  /\ last.op # "extract"
  /\ \E p \in Boundaries(stream.text, 1, FALSE) :
       \E ws \in UpTo(WhitespaceChars, MaxSpaces) \ {<<>>} :
         /\ stream' = Istream(Insert(stream.text, p, ws), FALSE, {})
         /\ last' = [NoCall EXCEPT !.op = "extract", !.i = p,
                                   !.name = stream.text]
  /\ LET a == CopyAssign(heap, vars["test2"], vars["test"]) IN
     /\ heap' = a.h
     /\ vars' = [vars EXCEPT !["test2"] = a.v]
  /\ parser' = ParserState
  /\ frames' = <<>>
  /\ retval' = "none"
  /\ pc' = "ready"
  /\ error' = "none"
  /\ UNCHANGED <<copies, given, calls>>

NextSpaces ==
  \/ NextParse
  \/ ExtractSpaced

SpacesSpec == InitSpaces /\ [][NextSpaces]_allVars

\* a and b denote the same JSON value: the same type and the same data,
\* container by container
RECURSIVE SameValue(_, _, _)
SameValue(H, a, b) ==
  /\ TypeOf(a) = TypeOf(b)
  /\ IF TypeOf(a) \in {"array", "object"}
     THEN /\ DOMAIN Container(H, a) = DOMAIN Container(H, b)
          /\ \A k \in DOMAIN Container(H, a) :
               SameValue(H, Container(H, a)[k], Container(H, b)[k])
     ELSE Equals(H, a, b)

\* the second extraction is over
Respaced == last.op = "extract" /\ pc \in Final

\* C12 as claimed: whitespace inserted before or after any token of an
\* accepted text, the opening brace of the top-level object included,
\* leaves the text accepted and the parsed Value the same.
C12_WhitespaceIgnored ==
  Respaced =>
    /\ pc = "parsed"
    /\ SameValue(heap, vars["test"], vars["test2"])

\* C12's failing case: the accepted text {"a": true} with a space before
\* its opening brace is rejected with a syntax error, nothing being read
C12_Witness ==
  /\ Respaced
  /\ last.i = 0
  /\ stream.text = <<" ", "{", "\"", "a", "\"", ":", " ", "t", "r", "u",
                     "e", "}">>
  /\ stream.pos = 0
  /\ pc = "failed"
  /\ error = "SyntaxError"
  /\ TypeOf(vars["test2"]) = "object"

\* C12 for every place but the one before the opening brace of the
\* top-level object: the text stays accepted and the Value the same
C12_WhitespaceAfterOpeningBrace ==
  (Respaced /\ last.i > 0) =>
    /\ pc = "parsed"
    /\ SameValue(heap, vars["test"], vars["test2"])

(***************************************************************************)
(* Syntax errors: texts that lack required grammar.                        *)
(***************************************************************************)
\* does not begin with {
NoOpeningBrace ==
  {<<>>, <<"[", "]">>, <<"\"", "a", "\"">>, <<"x">>, <<"}">>}
\* a property name that is not followed by :
NoColon ==
  {<<"{", "\"", "a", "\"", " ", "1", "}">>, <<"{", "\"", "a", "\"", "}">>,
   <<"{", "\"", "a", "\"", ",", "\"", "b", "\"", ":", "1", "}">>}
\* : that is not followed by a value
NoValue ==
  {<<"{", "\"", "a", "\"", ":", "}">>,
   <<"{", "\"", "a", "\"", ":", ",", "\"", "b", "\"", ":", "1", "}">>}
\* , that is not followed by another property or element
TrailingComma ==
  {<<"{", "\"", "a", "\"", ":", "1", ",", "}">>,
   <<"{", "\"", "a", "\"", ":", "[", "1", ",", "]", "}">>,
   <<"{", "\"", "a", "\"", ":", "[", "1", ",", " ", "]", "}">>}
\* a key that is unquoted or single-quoted
BadKey ==
  {<<"{", "a", ":", "1", "}">>, <<"{", "'", "a", "'", ":", "1", "}">>,
   <<"{", "\"", "a", "\"", ":", "1", ",", "b", ":", "2", "}">>}
\* a bare word other than true, false, null in value position
BareWord ==
  {<<"{", "\"", "a", "\"", ":", "n", "u", "l", "}">>,
   <<"{", "\"", "a", "\"", ":", "T", "r", "u", "e", "}">>,
   <<"{", "\"", "a", "\"", ":", "[", "x", "]", "}">>}

\* the first k characters of the texts ts, k less than the length (proper)
\* or any
Prefixes(ts, proper) ==
  UNION {{SubSeq(t, 1, k) : k \in 0 .. (IF proper THEN Len(t) - 1 ELSE Len(t))} :
           t \in ts}

\* a closing }, ] or " is absent: a text of ObjectTexts cut short
NoClosing == Prefixes(ObjectTexts, TRUE)

Malformed ==
  NoOpeningBrace \cup NoColon \cup NoValue \cup TrailingComma \cup BadKey
    \cup BareWord \cup NoClosing

InitSyntax == \E text \in ObjectTexts \cup Malformed : BeforeText(text)

SyntaxSpec == InitSyntax /\ [][NextParse]_allVars

\* C13 as claimed: on a text that lacks required grammar (no opening
\* brace, no colon after a name, no value after a colon, a trailing comma,
\* an absent closing brace, bracket or quote, an unquoted or single-quoted
\* key, a bare word that is not true, false or null) parseObject raises a
\* syntax error and returns no Value.
C13_MissingGrammarIsSyntaxError ==
  (pc \in Final /\ stream.text \in Malformed) =>
    /\ pc = "failed"
    /\ error = "SyntaxError"

\* C13's failing case: the closing brace of {"a": []} is absent, and a
\* TypeError, not a syntax error, was raised
C13_Witness ==
  /\ stream.text = <<"{", "\"", "a", "\"", ":", " ", "[", "]">>
  /\ stream.text \in NoClosing
  /\ pc = "escaped"
  /\ error = "TypeError"

\* C13 whenever no exception other than a ParserError is raised: a syntax
\* error, and no Value
C13_SyntaxErrorUnlessEscaped ==
  (pc \in Final /\ stream.text \in Malformed /\ pc # "escaped") =>
    /\ pc = "failed"
    /\ error = "SyntaxError"

(***************************************************************************)
(* String tokens: a token "body" written as a property value, as an array  *)
(* element and as a property name.                                         *)
(***************************************************************************)
\* longest body made of every combination of StringAlphabet
MaxBody == 3

StringAlphabet == {"a", "n", "u", "/", "\\", "\""}

\* bodies with each escape, the one of tests.cpp and of the specification
StringExamples ==
  {<<"\\", "b">>, <<"\\", "f">>, <<"\\", "r">>, <<"\\", "t">>,
   <<"l", " ", "1", "\\", "n", "l", " ", "2">>, <<"a", "\\", "n", "b">>,
   <<"\\", "u", "0", "0", "4", "1">>, <<"\\", "u", "0", "0", "0", "a">>,
   <<"\\", "u", "0", "0", "7", "E">>, <<"\\", "u", "0", "0", "4">>}

StringBodies == UpTo(StringAlphabet, MaxBody) \cup StringExamples

\* the texts the token "body" is written in
StringTexts(body) ==
  <<InValue(<<"\"">> \o body \o <<"\"">>),
    InElement(<<"\"">> \o body \o <<"\"">>),
    <<"{", "\"">> \o body \o <<"\"", ":", "0", "}">>,
    <<"{", "\"">> \o body \o <<"\"", ":", "t", "r", "u", "e", "}">>>>

\* the text was written with the token "body" at place i of StringTexts
WithString(body, i) == [NoCall EXCEPT !.op = "string", !.name = body, !.i = i]

InitString ==
  \E body \in StringBodies : \E i \in DOMAIN StringTexts(body) :
    Before(<<BaseCell>>, NullValue, Istream(StringTexts(body)[i], FALSE, {}),
           WithString(body, i))

StringSpec == InitString /\ [][NextParse]_allVars

HexDigits ==
  {"0", "1", "2", "3", "4", "5", "6", "7", "8", "9",
   "A", "B", "C", "D", "E", "F", "a", "b", "c", "d", "e", "f"}

\* body is the inside of a JSON string: characters other than the quote,
\* the backslash and the control characters, and escapes
RECURSIVE IsStringBody(_)
IsStringBody(s) ==
  IF s = <<>> THEN TRUE
  ELSE IF Head(s) = "\"" THEN FALSE
  ELSE IF Head(s) # "\\"
  THEN Head(s) \in Range(Printable) /\ IsStringBody(Tail(s))
  ELSE IF Has(s, 2, {"\"", "\\", "/", "b", "f", "n", "r", "t"})
  THEN IsStringBody(SubSeq(s, 3, Len(s)))
  ELSE /\ Has(s, 2, {"u"})
       /\ \A k \in 3 .. 6 : Has(s, k, HexDigits)
       /\ IsStringBody(SubSeq(s, 7, Len(s)))

\* the value of a hexadecimal digit, and of the four from index i of s
HexValue(c) ==
  IF c \in Digit09 THEN Code(c) - Code("0")
  ELSE IF Code(c) >= Code("a") THEN Code(c) - Code("a") + 10
  ELSE Code(c) - Code("A") + 10
HexCode(s, i) ==
  ((HexValue(s[i]) * 16 + HexValue(s[i + 1])) * 16 + HexValue(s[i + 2])) * 16
    + HexValue(s[i + 3])

\* the character with a code
CharOf(code) ==
  CASE code = 8 -> Backspace
    [] code = 9 -> "\t"
    [] code = 10 -> "\n"
    [] code = 12 -> "\f"
    [] code = 13 -> "\r"
    [] code \in 32 .. 126 -> Printable[code - 31]
    [] OTHER -> "U+" \o ToString(code)

\* the string a body denotes: every escape is the one character it stands
\* for
RECURSIVE Unescape(_)
Unescape(s) ==
  IF s = <<>> THEN <<>>
  ELSE IF Head(s) # "\\" THEN <<Head(s)>> \o Unescape(Tail(s))
  ELSE IF s[2] = "u"
  THEN <<CharOf(HexCode(s, 3))>> \o Unescape(SubSeq(s, 7, Len(s)))
  ELSE <<CASE s[2] = "b" -> Backspace
           [] s[2] = "f" -> "\f"
           [] s[2] = "n" -> "\n"
           [] s[2] = "r" -> "\r"
           [] s[2] = "t" -> "\t"
           [] OTHER -> s[2]>> \o Unescape(SubSeq(s, 3, Len(s)))

\* test is the object of the text of place last.i, and where the token was
\* written it holds the string s
HoldsString(s) ==
  /\ TypeOf(vars["test"]) = "object"
  /\ LET o == Container(heap, vars["test"]) IN
     CASE last.i = 1 ->
            /\ DOMAIN o = {<<>>}
            /\ TypeOf(o[<<>>]) = "string"
            /\ AsString(heap, o[<<>>]).ret.s = s
       [] last.i = 2 ->
            /\ DOMAIN o = {<<>>}
            /\ TypeOf(o[<<>>]) = "array"
            /\ DOMAIN Container(heap, o[<<>>]) = {1}
            /\ TypeOf(Container(heap, o[<<>>])[1]) = "string"
            /\ AsString(heap, Container(heap, o[<<>>])[1]).ret.s = s
       [] OTHER -> DOMAIN o = {s}

\* the extraction of a text with a string token is over
StringDone == last.op = "string" /\ pc \in Final

\* C14 as claimed: for every string token the grammar accepts,
\* compileString yields the token's text without the quotes, each of the
\* escapes \" \\ \/ \b \f \n \r \t replaced by the character it denotes and
\* each \uXXXX by the character with that code, so that no backslash that
\* starts an escape remains.
C14_StringDecoded ==
  (StringDone /\ IsStringBody(last.name)) =>
    /\ pc = "parsed"
    /\ HoldsString(Unescape(last.name))

\* C14's failing case: the token "A" as a property value was accepted
\* and decoded to the six characters A, the backslash included
C14_Witness ==
  /\ StringDone
  /\ last.name = <<"\\", "u", "0", "0", "4", "1">>
  /\ last.i = 1
  /\ pc = "parsed"
  /\ HoldsString(<<"\\", "u", "0", "0", "4", "1">>)
  /\ Unescape(last.name) = <<"A">>

\* C14 for the tokens without a \u escape: decoded as claimed
C14_DecodedWithoutUnicode ==
  (StringDone /\ IsStringBody(last.name)
     /\ \A k \in 1 .. Len(last.name) - 1 :
          ~(last.name[k] = "\\" /\ last.name[k + 1] = "u"
            /\ (k = 1 \/ last.name[k - 1] # "\\"))) =>
    /\ pc = "parsed"
    /\ HoldsString(Unescape(last.name))

\* a text whose string token is no JSON string is not accepted with that
\* token
C14_OnlyStringBodies ==
  (StringDone /\ ~IsStringBody(last.name)) => pc = "failed"

(***************************************************************************)
(* Formatting: out << test2, for Values built from literals with several   *)
(* elements and properties.  stream is the stream written to.              *)
(***************************************************************************)
\* most elements of an Array literal and properties of an Object literal
\* that is formatted
MaxItems == 2

FormatKeys == {<<"a">>, <<"B">>, <<"a", "b">>}

\* sequences of at most MaxItems distinct keys
KeyLists ==
  {ks \in UpTo(FormatKeys, MaxItems) :
     \A i, j \in DOMAIN ks : ks[i] = ks[j] => i = j}

\* the Arrays of at most MaxItems elements of S and the Objects of at most
\* MaxItems properties with distinct keys and values of S
Items(S) ==
  {ArrayLiteral(items) : items \in UpTo(S, MaxItems)}
    \cup UNION {{ObjectLiteral([i \in DOMAIN ks |-> <<ks[i], xs[i]>>]) :
                   xs \in [DOMAIN ks -> S]} : ks \in KeyLists}

FormatScalars ==
  {NullLiteral, BooleanLiteral(TRUE), BooleanLiteral(FALSE),
   NumberLiteral(Zero), StringLiteral(<<"a">>)}

\* scalars and containers of null: what a formatted container holds
FormatItems == FormatScalars \cup Items({NullLiteral})

\* test2 = Value(lit), and nothing written yet
BeforeFormat(lit) ==
  LET c == Construct(<<BaseCell>>, lit) IN
  /\ heap = c.h
  /\ vars = [x \in Handles |-> IF x = "test2" THEN c.v ELSE NullValue]
  /\ copies = {}
  /\ last = NoCall
  /\ calls = 0
  /\ given = [x \in Handles |-> Given("null", NoRet)]
  /\ stream = Istream(<<>>, FALSE, {})
  /\ parser = ParserState
  /\ frames = <<>>
  /\ retval = "none"
  /\ pc = "idle"
  /\ error = "none"

\* the literals formatted: the items, and the Arrays and Objects of them
InitFormat ==
  \/ \E lit \in FormatItems : BeforeFormat(lit)
  \/ \E k \in 0 .. MaxItems : \E items \in [1 .. k -> FormatItems] :
       BeforeFormat(ArrayLiteral(items))
  \/ \E ks \in KeyLists : \E xs \in [DOMAIN ks -> FormatItems] :
       BeforeFormat(ObjectLiteral([i \in DOMAIN ks |-> <<ks[i], xs[i]>>]))

\* out << test2
Format ==
  /\ pc = "idle"
  /\ last.op = "none"
  /\ stream' = Istream(FormatValue(heap, vars["test2"]), FALSE, {})
  /\ last' = Formatted
  /\ UNCHANGED <<heap, vars, copies, given, calls, parser, frames, retval,
                 pc, error>>

NextFormat == Format

FormatSpec == InitFormat /\ [][NextFormat]_allVars

\* the texts joined by a comma and a space
RECURSIVE Joined(_)
Joined(texts) ==
  IF texts = <<>> THEN <<>>
  ELSE IF Len(texts) = 1 THEN texts[1]
  ELSE texts[1] \o <<",", " ">> \o Joined(Tail(texts))

\* the keys K in ascending order
Ascending(K) ==
  CHOOSE ks \in [1 .. Cardinality(K) -> K] :
    \A i, j \in 1 .. Cardinality(K) : i < j => StringLess(ks[i], ks[j])

\* the compact layout of a Value: numbers and strings as the Formatter
\* prints them
RECURSIVE Layout(_, _)
Layout(H, v) ==
  CASE TypeOf(v) = "null" -> <<"n", "u", "l", "l">>
    [] TypeOf(v) = "boolean" ->
         IF AsBoolean(H, v).ret.b THEN <<"t", "r", "u", "e">>
         ELSE <<"f", "a", "l", "s", "e">>
    [] TypeOf(v) = "array" ->
         <<"[">>
           \o Joined([i \in DOMAIN Container(H, v) |->
                        Layout(H, Container(H, v)[i])])
           \o <<"]">>
    [] TypeOf(v) = "object" ->
         <<"{">>
           \o Joined([i \in 1 .. Cardinality(DOMAIN Container(H, v)) |->
                        <<"\"">> \o Ascending(DOMAIN Container(H, v))[i]
                          \o <<"\"", ":", " ">>
                          \o Layout(H, Container(H, v)[
                                      Ascending(DOMAIN Container(H, v))[i]])])
           \o <<"}">>
    [] OTHER -> FormatValue(H, v)

FormatParsed ==
  /\ pc = "parsed"
  /\ last.op = "string"
  /\ stream' = Istream(FormatValue(heap, vars["test"]), FALSE, {})
  /\ last' = [last EXCEPT !.op = "format", !.h = "test"]
  /\ UNCHANGED <<heap, vars, copies, given, calls, parser, frames, retval,
                 pc, error>>

NextEscape ==
  \/ NextParse
  \/ FormatParsed

EscapeSpec == InitString /\ [][NextEscape]_allVars

ControlChars == {Backspace, "\t", "\n", "\f", "\r"}

\* s with JSON-style escaping of the quote, the backslash and the control
\* characters
RECURSIVE JsonEscape(_)
JsonEscape(s) ==
  IF s = <<>> THEN <<>>
  ELSE (CASE Head(s) = "\"" -> <<"\\", "\"">>
          [] Head(s) = "\\" -> <<"\\", "\\">>
          [] Head(s) = Backspace -> <<"\\", "b">>
          [] Head(s) = "\t" -> <<"\\", "t">>
          [] Head(s) = "\n" -> <<"\\", "n">>
          [] Head(s) = "\f" -> <<"\\", "f">>
          [] Head(s) = "\r" -> <<"\\", "r">>
          [] OTHER -> <<Head(s)>>) \o JsonEscape(Tail(s))

\* the string the token was decoded to: the property's value, the array's
\* element, or the object's key
ParsedString ==
  LET o == Container(heap, vars["test"]) IN
  CASE last.i = 1 -> AsString(heap, o[<<>>]).ret.s
    [] last.i = 2 -> AsString(heap, Container(heap, o[<<>>])[1]).ret.s
    [] OTHER -> CHOOSE k \in DOMAIN o : TRUE

\* the text of the place last.i of StringTexts as the Formatter lays it out,
\* with the string literal lit
Escaped(lit) ==
  CASE last.i = 1 -> <<"{", "\"", "\"", ":", " ">> \o lit \o <<"}">>
    [] last.i = 2 -> <<"{", "\"", "\"", ":", " ", "[">> \o lit \o <<"]", "}">>
    [] last.i = 3 -> <<"{">> \o lit \o <<":", " ", "0", "}">>
    [] OTHER -> <<"{">> \o lit \o <<":", " ", "t", "r", "u", "e", "}">>

\* the Value parsed from a text with a string token has been formatted
StringFormatted == last.op = "format" /\ last.h = "test" /\ pc = "parsed"

\* C16 as claimed: the Formatter prints every string (string Values and
\* object keys) in double quotes with the quote, the backslash and the
\* control characters escaped, so that a newline is printed as \n and the
\* output holds no raw control character.
C16_StringsEscaped ==
  StringFormatted =>
    /\ stream.text = Escaped(<<"\"">> \o JsonEscape(ParsedString) \o <<"\"">>)
    /\ \A k \in DOMAIN stream.text : stream.text[k] \notin ControlChars

\* C16's failing case: the Value parsed from {"":"a\nb"} was printed with
\* a raw newline between a and b
C16_Witness ==
  /\ StringFormatted
  /\ last.name = <<"a", "\\", "n", "b">>
  /\ last.i = 1
  /\ ParsedString = <<"a", "\n", "b">>
  /\ stream.text = <<"{", "\"", "\"", ":", " ", "\"", "a", "\n", "b", "\"", "}">>

\* C16 for the strings without a control character: printed in double
\* quotes, quote and backslash escaped
C16_QuoteAndBackslashEscaped ==
  (StringFormatted /\ \A k \in DOMAIN ParsedString :
                        ParsedString[k] \notin ControlChars) =>
    stream.text = Escaped(<<"\"">> \o JsonEscape(ParsedString) \o <<"\"">>)

(***************************************************************************)
(* The value stack and the name stack, checked under ParseSpec.            *)
(***************************************************************************)
\* the rules that push a container
ListRules == {"property_list", "array_element_list"}

\* the frame is an invocation of one of them
IsList(f) == f.rule.op = "nonterminal" /\ f.rule.id \in ListRules

\* an invocation of property_list or array_element_list has just returned
\* (match or no-match) to Parser::parse
ListReturned ==
  /\ pc = "parsing"
  /\ frames # <<>>
  /\ IsList(Top)
  /\ Top.stage = 1
  /\ retval \in {"true", "false"}

\* the invocations of those rules that enclose the one at the top: each has
\* pushed its container and not yet popped it
EnclosingLists == Cardinality({k \in 1 .. Len(frames) - 1 : IsList(frames[k])})

\* C17 as claimed: whenever an invocation of property_list or
\* array_element_list returns, match or no-match, the value stack is as
\* deep as it was at entry (which, every earlier invocation having kept the
\* depth, is the number of enclosing invocations), and when parseObject on
\* a fresh Parser returns a Value the value stack and the name stack are
\* empty.
C17_ValueStackBalanced ==
  /\ ListReturned => Len(parser.valueStack) = EnclosingLists
  /\ pc = "parsed" => parser.valueStack = <<>> /\ parser.nameStack = <<>>

\* C17's failing case: on the text {} property_list, entered with an empty
\* value stack, returned no-match with the Object it pushed still on it
C17_Witness ==
  /\ ListReturned
  /\ Top.rule.id = "property_list"
  /\ retval = "false"
  /\ EnclosingLists = 0
  /\ Len(parser.valueStack) = 1
  /\ heap[parser.valueStack[1].impl].kind = "Object"
  /\ stream.text = <<"{", "}">>

\* the part of C17 about names: the name stack is empty whenever
\* parseObject returns a Value
C17_NameStackEmpty == pc = "parsed" => parser.nameStack = <<>>

(***************************************************************************)
(* Where properties and elements are stored, checked under ParseSpec on    *)
(* the texts the Formatter printed for an Object literal (test2): the      *)
(* Value each text denotes is the one it was printed for.                  *)
(***************************************************************************)
\* a text printed for an Object with at least one property was accepted
NestedAccepted ==
  /\ last.op = "format"
  /\ pc = "parsed"
  /\ TypeOf(vars["test2"]) = "object"
  /\ DOMAIN Container(heap, vars["test2"]) # {}

\* v is or holds an empty array or object
RECURSIVE HoldsEmpty(_, _)
HoldsEmpty(H, v) ==
  /\ TypeOf(v) \in {"array", "object"}
  /\ \/ DOMAIN Container(H, v) = {}
     \/ \E k \in DOMAIN Container(H, v) : HoldsEmpty(H, Container(H, v)[k])

\* C18 as claimed: for every accepted input each property is stored in the
\* object whose braces directly enclose it, with the Value its value text
\* denotes, and each element is appended to the array whose brackets
\* directly enclose it, also when the value is an empty object or array:
\* the Value parsed has the properties and elements of the Value the text
\* was printed for, container by container.
C18_StoredWhereWritten ==
  NestedAccepted => SameValue(heap, vars["test"], vars["test2"])

\* C18's failing case: {"a": {}} was accepted and yielded an object whose
\* property "a" is the string "a", not an empty object
C18_Witness ==
  /\ NestedAccepted
  /\ stream.text = <<"{", "\"", "a", "\"", ":", " ", "{", "}", "}">>
  /\ TypeOf(vars["test"]) = "object"
  /\ DOMAIN Container(heap, vars["test"]) = {<<"a">>}
  /\ TypeOf(Container(heap, vars["test"])[<<"a">>]) = "string"
  /\ AsString(heap, Container(heap, vars["test"])[<<"a">>]).ret.s = <<"a">>

\* C18 for the texts without an empty array or object: stored as claimed
C18_StoredWithoutEmpty ==
  (NestedAccepted /\ ~HoldsEmpty(heap, vars["test2"])) =>
    SameValue(heap, vars["test"], vars["test2"])

(***************************************************************************)
(* What a rule that does not match has consumed, checked under ParseSpec.  *)
(***************************************************************************)
\* this step, the rule at the top returns no-match (and raises no error)
ReturnsNoMatch ==
  /\ pc = "parsing"
  /\ frames # <<>>
  /\ frames' = SubSeq(frames, 1, Len(frames) - 1)
  /\ retval' = "false"

\* C19 as claimed: whenever a rule invocation (terminal, named rule,
\* sequence or alternation operand) returns no-match without raising an
\* error, the stream position is the position at that rule's entry.
C19_NoMatchConsumesNothing ==
  [][ReturnsNoMatch => stream'.pos = Top.entry]_allVars

\* C19, amended: a terminal that returns no-match has consumed nothing; any
\* other rule that returns no-match without raising an error has consumed
\* whitespace characters only, so the second alternative of an alternation
\* is tried on the first character after the whitespace the first one
\* skipped.
C19_NoMatchConsumesWhitespaceOnly ==
  [][ReturnsNoMatch =>
       /\ stream'.pos >= Top.entry
       /\ \A k \in Top.entry + 1 .. stream'.pos : space(stream'.text[k])
       /\ Top.rule.op \in {"terminal", "terminalClass"} =>
            stream'.pos = Top.entry]_allVars

\* C19's case: on the text { } the named rule property_list, an operand of
\* the alternation in object, was entered at position 1 and has returned
\* no-match at position 2, the space consumed
C19_Witness ==
  /\ pc = "parsing"
  /\ frames # <<>>
  /\ Top.rule = nonterminal("property_list")
  /\ Top.stage = 1
  /\ retval = "false"
  /\ Top.entry = 1
  /\ stream.pos = 2
  /\ stream.text[2] = " "

(***************************************************************************)
(* Termination of operator>>: the extraction runs on the caller's thread   *)
(* until it returns or throws, so a step that can be taken is taken.       *)
(***************************************************************************)
\* the texts extracted from: every text of at most MaxInput characters of
\* Alphabet, decided while it is read, and texts with nested values, a
\* number, whitespace and an error
LiveTexts ==
  {<<"{", "\"", "a", "\"", ":", " ", "{", "\"", "a", "\"", ":", " ", "t",
     "r", "u", "e", "}", "}">>,
   <<"{", "\"", "a", "\"", ":", "[", "[", "1", "2", ",", " ", "-", "1", "]",
     ",", "\"", "\\", "n", "\"", " ", "]", " ", "}">>,
   <<"{", " ", "\"", "a", "\"", " ", ":", "[", "{", "}", ",", "n", "u", "l",
     "]", "}">>}

InitLive ==
  \/ Before(<<BaseCell>>, NullValue, Istream(<<>>, TRUE, Alphabet), NoCall)
  \/ \E text \in Texts \cup LiveTexts : BeforeText(text)

ParseLive == InitLive /\ [][NextParse]_allVars /\ WF_allVars(NextParse)

\* this step, the rule a multiple loop applies returns match, so that the
\* loop goes on
IterationMatched ==
  /\ pc = "parsing"
  /\ Len(frames) >= 2
  /\ frames[Len(frames) - 1].rule.op = "multiple"
  /\ frames' = SubSeq(frames, 1, Len(frames) - 1)
  /\ retval' = "true"

\* the invocations of the named rule value that are active, by frame
ValueFrames ==
  {k \in DOMAIN frames : frames[k].rule = nonterminal("value")}

\* C20: for every finite input text parseObject terminates, returning a
\* Value or raising an error; every iteration of a multiple loop that
\* continues has consumed at least one character; the rule value is only
\* re-entered, while an invocation of it is active, after more input (an
\* opening brace or bracket or a delimiter) was consumed; and no more
\* characters are consumed than the text has.
C20_ParseTerminates ==
  /\ <>(pc \in Final)
  /\ [][IterationMatched => stream'.pos > Top.entry]_allVars
  /\ [](\A j, k \in ValueFrames : j < k => frames[j].entry < frames[k].entry)
  /\ [](stream.pos <= Len(stream.text))

\* C20's case: the text {"a": {"a": true}}, with whitespace loops that went
\* on and value entered within value, was read to its end and parseObject
\* returned
C20_Witness ==
  /\ stream.text = <<"{", "\"", "a", "\"", ":", " ", "{", "\"", "a", "\"",
                     ":", " ", "t", "r", "u", "e", "}", "}">>
  /\ stream.pos = Len(stream.text)
  /\ pc = "parsed"
  /\ parser.lines = 0

(***************************************************************************)
(* Formatter::print, call by call.  frames is the stack of the calls of    *)
(* print(out, value) that are active: the Value printed and, for an Array  *)
(* or Object, how far its loop has come (i = 0 before the opening bracket, *)
(* then the number of the item printed next).  stream.text is what was     *)
(* written to out.  The caller constructs and changes test and test2 with  *)
(* the operations of NextValue and then prints one of them.                *)
(***************************************************************************)
\* the number of nested calls of print the stack of the thread has room for
MaxDepth == 6

PrintFrame(v) == [value |-> v, i |-> 0]

\* the call of print that is running
Printed == frames[Len(frames)]

IsContainer(v) == TypeOf(v) \in {"array", "object"}

\* the keys a std::map is iterated in
EntryKeys(v) == SortedKeys(DOMAIN heap[v.impl].obj)

\* the number of items the loop of print goes through
ItemCount(v) ==
  IF TypeOf(v) = "array" THEN Len(heap[v.impl].arr) ELSE Len(EntryKeys(v))

\* the Value of item i: array[i - 1], or entry.second of the i-th entry
Item(v, i) ==
  IF TypeOf(v) = "array" THEN heap[v.impl].arr[i]
  ELSE heap[v.impl].obj[EntryKeys(v)[i]]

\* what the loop writes before it prints item i
BeforeItem(v, i) ==
  (IF i # 1 THEN <<",", " ">> ELSE <<>>)
    \o (IF TypeOf(v) = "object" THEN Quoted(EntryKeys(v)[i]) \o <<":", " ">>
        ELSE <<>>)

\* out << text
Write(text) == stream' = [stream EXCEPT !.text = @ \o text]

\* return out: the call that is running returns to the one that made it,
\* the first one to its caller
PrintReturn ==
  /\ frames' = SubSeq(frames, 1, Len(frames) - 1)
  /\ pc' = IF Len(frames) = 1 THEN "printed" ELSE "printing"

\* the caller's operations, between two calls
Operate == pc = "idle" /\ NextValue

\* to_string(test): Formatter().print(ss, value) is called
BeginPrint(x) ==
  /\ pc = "idle"
  /\ pc' = "printing"
  /\ frames' = <<PrintFrame(vars[x])>>
  /\ stream' = Istream(<<>>, FALSE, {})
  /\ last' = Call("print", x, 0, <<>>, NullValue, "none", NoRet)
  /\ UNCHANGED <<heap, vars, copies, given, calls, parser, retval, error>>

\* print(out, value) of null, a boolean, a number or a string
PrintScalar ==
  /\ pc = "printing"
  /\ ~IsContainer(Printed.value)
  /\ Write(FormatValue(heap, Printed.value))
  /\ PrintReturn
  /\ UNCHANGED <<heap, vars, history, parser, retval, error>>

\* print(out, array), print(out, object): out << '[', out << '{'
PrintOpen ==
  /\ pc = "printing"
  /\ IsContainer(Printed.value)
  /\ Printed.i = 0
  /\ Write(IF TypeOf(Printed.value) = "array" THEN <<"[">> ELSE <<"{">>)
  /\ frames' = [frames EXCEPT ![Len(frames)].i = 1]
  /\ UNCHANGED <<heap, vars, history, parser, retval, pc, error>>

\* one turn of the loop: the separator, the key, and
\* Formatter(flags, level + 1).print(out, value) is called.  A call for
\* which the stack has no room ends the program.
PrintItem ==
  /\ pc = "printing"
  /\ IsContainer(Printed.value)
  /\ Printed.i \in 1 .. ItemCount(Printed.value)
  /\ Write(BeforeItem(Printed.value, Printed.i))
  /\ IF Len(frames) >= MaxDepth
     THEN pc' = "overflow" /\ UNCHANGED frames
     ELSE /\ frames' = [frames EXCEPT ![Len(frames)].i = @ + 1]
                         \o <<PrintFrame(Item(Printed.value, Printed.i))>>
          /\ UNCHANGED pc
  /\ UNCHANGED <<heap, vars, history, parser, retval, error>>

\* after the loop: return out << ']', return out << '}'
PrintClose ==
  /\ pc = "printing"
  /\ IsContainer(Printed.value)
  /\ Printed.i = ItemCount(Printed.value) + 1
  /\ Write(IF TypeOf(Printed.value) = "array" THEN <<"]">> ELSE <<"}">>)
  /\ PrintReturn
  /\ UNCHANGED <<heap, vars, history, parser, retval, error>>

PrintStep ==
  \/ PrintScalar
  \/ PrintOpen
  \/ PrintItem
  \/ PrintClose

NextPrint ==
  \/ Operate
  \/ \E x \in Handles : BeginPrint(x)
  \/ PrintStep

\* print runs on the caller's thread: once called it keeps running
PrintSpec == InitValue /\ [][NextPrint]_allVars /\ WF_allVars(PrintStep)

\* the Value handed to print
PrintedValue == vars[last.h]

\* a container that is reached from the Values it holds
Cyclic(v) ==
  \E a \in Reach(heap, {v.impl}) : a \in Reach(heap, Refs(heap, a))

\* C21: Formatter::print terminates for every Value reachable through the
\* public Value operations, an array or object whose shared container
\* holds a copy of that same Value included: every call of print returns.
C21_PrintTerminates == (pc = "printing") ~> (pc = "printed")

\* C21's case: test is an Array whose container holds a copy of test
\* (test.asArray().push_back(test)); print(out, test) has called itself
\* until the stack was full and has not returned
C21_Witness ==
  /\ pc = "overflow"
  /\ last.h = "test"
  /\ TypeOf(PrintedValue) = "array"
  /\ Len(heap[PrintedValue.impl].arr) = 1
  /\ heap[PrintedValue.impl].arr[1] = PrintedValue
  /\ Len(frames) = MaxDepth
  /\ \A k \in DOMAIN frames : frames[k].value = PrintedValue

\* C21, for the Values that hold no copy of themselves: print returns, with
\* the text of FormatValue written
C21_AcyclicPrintReturns ==
  /\ (pc = "printing" /\ ~Cyclic(PrintedValue)) ~> (pc = "printed")
  /\ [](pc = "printed" => stream.text = FormatValue(heap, PrintedValue))
  /\ [](pc = "overflow" => Cyclic(PrintedValue))

\* C21, the object case: test is an Object that holds a copy of itself as
\* a property (test["a"] = test) and print has not returned
C21_ObjectCycle ==
  /\ pc = "overflow"
  /\ TypeOf(PrintedValue) = "object"
  /\ <<"a">> \in DOMAIN heap[PrintedValue.impl].obj
  /\ heap[PrintedValue.impl].obj[<<"a">>] = PrintedValue

====
